---- MODULE Spec2Model ----
(***************************************************************************)
(* A model of the Prophecy budget engine (bradenmacdonald/prophecy): the   *)
(* immutable Budget aggregate with its structural mutators, and the redux  *)
(* layer (reducer and inverter) that applies commands to a Budget and      *)
(* synthesises the command that undoes each one.                           *)
(*                                                                         *)
(* An Immutable.OrderedMap keyed by id is a sequence of records with       *)
(* pairwise distinct ids, in iteration order.  A thrown Error is the value *)
(* Throw; a caller that catches it keeps the Budget it had.  null is Null. *)
(* A command is a record whose DOMAIN holds exactly the keys present in    *)
(* the JavaScript object.  The free-form fields that no operation reads    *)
(* (metadata, notes, who, userId, description) are left out of the records.*)
(* A PDate is its day number.  A value that may be undefined, or a list or  *)
(* a map that may be null, is wrapped in a record so that it can be told    *)
(* apart from undefined and null.                                           *)
(*                                                                         *)
(* Each specification dispatches the commands of one part of the engine:   *)
(* Spec the settings and the commands the reducer ignores, SpecTxn dated   *)
(* transactions, SpecMulti the compound command, SpecAcct accounts and the *)
(* transactions linked to them, SpecLink currencies across links, SpecCat  *)
(* categories and their groups, SpecGroup groups that are deleted,         *)
(* SpecUnlink categories deleted under split transactions, SpecRules the   *)
(* rules of a category and the period of the Budget, SpecBal the account   *)
(* balances, SpecCatBal the category balances and budgets, SpecCount the   *)
(* occurrences of a rule in a window, SpecJS the round trip through toJS   *)
(* and fromJS, SpecRec and SpecRule the checks of a record's fields,       *)
(* SpecRelinkAccount and SpecRelinkCategory insertions that link           *)
(* transactions, SpecPlace categories placed in their groups and SpecPos   *)
(* indexes inside and outside a list.                                      *)
(***************************************************************************)
EXTENDS Integers, Sequences, FiniteSets, TLC

VARIABLES state, prev, cmd, thrown

vars == <<state, prev, cmd, thrown>>

----------------------------------------------------------------------------
(* Bounds of the model *)

MaxAccountId == 2
MaxGroupId == 2
MaxCategoryId == 2
MaxTxnId == 2
MaxDate == 1

----------------------------------------------------------------------------
(* Values *)

Null == -1

(* undefined, and a value that is told apart from it *)
Undefined == [undefined |-> TRUE]
Defined(v) == [value |-> v]

Throw == [thrown |-> TRUE]

SUPPORTED_CURRENCIES == {"CAD", "EUR", "USD", "JPY", "XBT"}

PROPHECY_ACTION_PREFIX == "PRPHCY_"
NOOP == PROPHECY_ACTION_PREFIX \o "NOOP"
SET_CURRENCY == PROPHECY_ACTION_PREFIX \o "SET_CURRENCY"
SET_DATE == PROPHECY_ACTION_PREFIX \o "SET_DATE"
SET_NAME == PROPHECY_ACTION_PREFIX \o "SET_NAME"
DELETE_ACCOUNT == PROPHECY_ACTION_PREFIX \o "DELETE_ACCT"
UPDATE_ACCOUNT == PROPHECY_ACTION_PREFIX \o "UPDATE_ACCT"
DELETE_CATEGORY == PROPHECY_ACTION_PREFIX \o "DELETE_CAT"
UPDATE_CATEGORY == PROPHECY_ACTION_PREFIX \o "UPDATE_CAT"
DELETE_CATEGORY_GROUP == PROPHECY_ACTION_PREFIX \o "DELETE_CG"
UPDATE_CATEGORY_GROUP == PROPHECY_ACTION_PREFIX \o "UPDATE_CG"
DELETE_TRANSACTION == PROPHECY_ACTION_PREFIX \o "DELETE_TXN"
UPDATE_TRANSACTION == PROPHECY_ACTION_PREFIX \o "UPDATE_TXN"
UPDATE_MULTIPLE_TRANSACTIONS == PROPHECY_ACTION_PREFIX \o "UPDATE_MANY_TXN"

(* String.prototype.startsWith *)
startsWith(s, p) == Len(s) >= Len(p) /\ SubSeq(s, 1, Len(p)) = p

Min(a, b) == IF a < b THEN a ELSE b
Max(a, b) == IF a > b THEN a ELSE b

----------------------------------------------------------------------------
(* Immutable.js collections *)

(* OrderedMap.has / get / keySeq().keyOf (0-based) / set / delete *)
Has(m, id) == \E i \in DOMAIN m : m[i].id = id
IndexOf(m, id) == CHOOSE i \in DOMAIN m : m[i].id = id
Get(m, id) == m[IndexOf(m, id)]
keyOf(m, id) == IndexOf(m, id) - 1
MapSet(m, rec) ==
    IF Has(m, rec.id) THEN [m EXCEPT ![IndexOf(m, rec.id)] = rec]
    ELSE Append(m, rec)
MapDelete(m, id) == SelectSeq(m, LAMBDA r : r.id # id)

(* List.insert(index, value) is splice(index, 0, value): a negative index   *)
(* counts from the end and every index is clamped into 0..size.             *)
ListInsert(list, index, v) ==
    LET at == IF index < 0 THEN Max(0, Len(list) + index)
              ELSE Min(Len(list), index)
    IN SubSeq(list, 1, at) \o <<v>> \o SubSeq(list, at + 1, Len(list))

(* sortBy: Immutable sorts the entries by (key, previous index), so it is   *)
(* stable.  keys[i] is the sort key of s[i].                                *)
SortByKeys(s, keys) ==
    LET Rank(i) == Cardinality({j \in DOMAIN s :
                        keys[j] < keys[i] \/ (keys[j] = keys[i] /\ j < i)}) + 1
    IN [r \in 1..Len(s) |-> s[CHOOSE i \in DOMAIN s : Rank(i) = r]]

(* Record.merge(data): every key of data replaces the field wholesale. *)
Merge(rec, data) ==
    [k \in DOMAIN rec |-> IF k \in DOMAIN data THEN data[k] ELSE rec[k]]

(* Record.toJS() followed by `delete data.id` *)
toJSWithoutId(rec) == [k \in DOMAIN rec \ {"id"} |-> rec[k]]

----------------------------------------------------------------------------
(* Records and their _checkInvariants *)

NewAccount(id) ==
    [id |-> id, name |-> "", initialBalance |-> 0, currencyCode |-> "USD"]

Account_checkInvariants(a) == a.currencyCode \in SUPPORTED_CURRENCIES

NewCategoryGroup(id) == [id |-> id, name |-> ""]

(* PDate: a date is its value, the number of days since 2000-01-01.  year, *)
(* month (0-based) and day are computed from the value as the getters do.   *)
MONTH_SUMS_NORMAL_YEAR == <<0, 31, 59, 90, 120, 151, 181, 212, 243, 273, 304, 334>>
MONTH_SUMS_LEAP_YEAR == <<0, 31, 60, 91, 121, 152, 182, 213, 244, 274, 305, 335>>

isLeapYear(year) == year % 4 = 0 /\ (year % 100 # 0 \/ year % 400 = 0)

(* The value of 1 January of the year 2000 + nyear *)
yearStart(nyear) ==
    nyear * 365 + (nyear + 3) \div 4 - (nyear + 99) \div 100 + (nyear + 399) \div 400

triplet_to_days_value(year, month, day) ==
    yearStart(year - 2000)
      + (IF isLeapYear(year) THEN MONTH_SUMS_LEAP_YEAR[month + 1]
         ELSE MONTH_SUMS_NORMAL_YEAR[month + 1])
      + day - 1

(* (2000 + (value + centuries - (centuries/4|0)) / 365.25) | 0 *)
PDate_year(value) ==
    LET centuries == value \div 36525
    IN 2000 + (4 * (value + centuries - centuries \div 4)) \div 1461

(* NORMAL_YEAR / LEAP_YEAR hold one letter per day of the year, a run for   *)
(* each month: the month of this day of the year is the last month that     *)
(* starts at or before it.                                                  *)
PDate_month(value) ==
    LET nyear == PDate_year(value) - 2000
        dayOfYear == value - yearStart(nyear)
        sums == IF isLeapYear(nyear) THEN MONTH_SUMS_LEAP_YEAR
                ELSE MONTH_SUMS_NORMAL_YEAR
    IN Cardinality({m \in 1..12 : sums[m] <= dayOfYear}) - 1

PDate_day(value) ==
    value - triplet_to_days_value(PDate_year(value), PDate_month(value), 1) + 1

CategoryRulePeriod_Day == 2
CategoryRulePeriod_Week == 3
CategoryRulePeriod_Month == 4
CategoryRulePeriod_Year == 5

allowedRuleValues ==
    {CategoryRulePeriod_Day, CategoryRulePeriod_Week,
     CategoryRulePeriod_Month, CategoryRulePeriod_Year}

(* new CategoryRule(values): the defaults with the given values over them *)
NewCategoryRule ==
    [amount |-> 0, startDate |-> Null, endDate |-> Null, repeatN |-> 1,
     period |-> Null]

CategoryRule(values) == Merge(NewCategoryRule, values)

(* repeatN >>> 0 === repeatN accepts 0 as well as the positive integers *)
CategoryRule_checkInvariants(rule) ==
    /\ rule.repeatN >= 0
    /\ rule.period = Null \/ rule.period \in allowedRuleValues

(* A count of the occurrences that has the first one on the first day of   *)
(* the window, whatever the startDate of the rule                           *)
countOccurrencesFromWindowBegin(rule, dateBegin, dateEnd) ==
    IF rule.period = Null THEN 1
    ELSE (dateEnd - dateBegin) \div (rule.repeatN * 7) + 1

(* A count that leaves out the day the window begins on *)
countDaysAfterBegin(rule, dateBegin, dateEnd) == dateEnd - dateBegin

(* countOccurrencesBetween, for a rule with repeatN > 0.  Math.floor is     *)
(* \div, which rounds down.                                                 *)
RECURSIVE countOccurrencesBetween(_, _, _)
countOccurrencesBetween(rule, dateBegin, dateEnd) ==
    IF ~(dateEnd >= dateBegin) THEN Throw
    ELSE IF rule.startDate # Null /\ dateEnd < rule.startDate THEN 0
    ELSE IF rule.endDate # Null /\ dateBegin > rule.endDate THEN 0
    ELSE IF rule.period = Null THEN 1
    ELSE LET firstDay == IF rule.startDate # Null THEN rule.startDate
                         ELSE dateBegin
             lastDay == IF rule.endDate # Null /\ rule.endDate < dateEnd
                        THEN rule.endDate ELSE dateEnd
             daysDiff == Max(0, lastDay - firstDay)
             months ==
                 (PDate_year(lastDay) - PDate_year(firstDay)) * 12
                   + (PDate_month(lastDay) - PDate_month(firstDay))
                   + (IF PDate_day(lastDay) >= PDate_day(firstDay) THEN 1 ELSE 0)
             result ==
                 CASE rule.period = CategoryRulePeriod_Day ->
                        daysDiff \div rule.repeatN + 1
                   [] rule.period = CategoryRulePeriod_Week ->
                        daysDiff \div (rule.repeatN * 7) + 1
                   [] rule.period = CategoryRulePeriod_Month ->
                        (months - 1) \div rule.repeatN + 1
                   [] rule.period = CategoryRulePeriod_Year ->
                        (PDate_year(lastDay) - PDate_year(firstDay))
                          + (IF PDate_month(lastDay) > PDate_month(firstDay)
                                \/ (PDate_month(lastDay) = PDate_month(firstDay)
                                    /\ PDate_day(lastDay) >= PDate_day(firstDay))
                             THEN 1 ELSE 0)
         IN result - (IF firstDay < dateBegin
                      THEN countOccurrencesBetween(rule, firstDay, dateBegin - 1)
                      ELSE 0)

(* The rules field of a Category is null or a List: null is NullRules and   *)
(* a List is ListOf(its elements).                                          *)
NullRules == [isNull |-> TRUE]

ListOf(elements) == [list |-> elements]

NewCategory(id) ==
    [id |-> id, name |-> "", rules |-> NullRules, currencyCode |-> "USD",
     groupId |-> Null]

(* Category.cleanArgs: each element of rules becomes a CategoryRule *)
Category_cleanArgs(values) ==
    IF "rules" \in DOMAIN values /\ values.rules # NullRules
    THEN [values EXCEPT !.rules =
            ListOf([i \in DOMAIN @.list |-> CategoryRule(@.list[i])])]
    ELSE values

assertPositiveIntegerOrNull(v) == v = Null \/ v > 0

(* The rules are built by cleanArgs before the Category is: a rule that     *)
(* fails its own invariants throws there.                                   *)
Category_checkInvariants(c) ==
    /\ assertPositiveIntegerOrNull(c.id)
    /\ assertPositiveIntegerOrNull(c.groupId)
    /\ c.rules # NullRules =>
          \A i \in DOMAIN c.rules.list : CategoryRule_checkInvariants(c.rules.list[i])
    /\ c.currencyCode \in SUPPORTED_CURRENCIES

NewTransactionDetail == [amount |-> 0, categoryId |-> Null]

NewTransaction(id) ==
    [id |-> id, date |-> Null, accountId |-> Null,
     detail |-> <<NewTransactionDetail>>, pending |-> TRUE, isTransfer |-> FALSE]

Transaction_checkInvariants(t) ==
    /\ assertPositiveIntegerOrNull(t.id)
    /\ assertPositiveIntegerOrNull(t.accountId)
    /\ Len(t.detail) > 0
    /\ \A i \in DOMAIN t.detail :
          /\ assertPositiveIntegerOrNull(t.detail[i].categoryId)
          /\ (t.isTransfer => t.detail[i].categoryId = Null)

(* Transaction.amount: the sum of the detail amounts *)
RECURSIVE SumAmounts(_, _)
SumAmounts(detail, i) ==
    IF i > Len(detail) THEN 0 ELSE detail[i].amount + SumAmounts(detail, i + 1)

Transaction_amount(t) == SumAmounts(t.detail, 1)

(* A validation that accepts every category *)
Category_validateNothing(c, budget) == TRUE

(* The errors (not the warnings) that Category._validate reports: the       *)
(* result is TRUE when validateForBudget(budget).errors is empty.           *)
(* An assertion that fails inside countOccurrencesBetween refuses the       *)
(* category just as an error does.                                          *)
Category_validate(c, budget) ==
    /\ c.groupId # Null /\ Has(budget.categoryGroups, c.groupId)
    /\ c.rules # NullRules =>
          \A i, j \in DOMAIN c.rules.list :
             i # j =>
                LET rule == c.rules.list[i]
                    otherRule == c.rules.list[j]
                    otherStartDate == IF otherRule.startDate # Null
                                      THEN otherRule.startDate ELSE budget.startDate
                    otherEndDate == IF otherRule.endDate # Null
                                    THEN otherRule.endDate ELSE budget.endDate
                IN /\ otherEndDate >= otherStartDate
                   /\ countOccurrencesBetween(rule, otherStartDate, otherEndDate) = 0

(* A validation that looks at the account and not at the categories *)
Transaction_validateAccountOnly(t, budget) ==
    t.accountId # Null => Has(budget.accounts, t.accountId)

(* The errors (not the warnings) that Transaction._validate reports. *)
Transaction_validate(t, budget) ==
    /\ t.accountId # Null => Has(budget.accounts, t.accountId)
    /\ \A i \in DOMAIN t.detail :
          LET categoryId == t.detail[i].categoryId IN
          categoryId # Null =>
             /\ Has(budget.categories, categoryId)
             /\ (t.accountId # Null /\ Has(budget.accounts, t.accountId)) =>
                   Get(budget.accounts, t.accountId).currencyCode
                      = Get(budget.categories, categoryId).currencyCode

----------------------------------------------------------------------------
(* Budget *)

(* The constructor's default range (1 January to 31 December of the        *)
(* current year) is the whole range of the model's dates.                   *)
(* _accountBalances and _transactionAccountBalances are the instance       *)
(* fields that hold the balances once they are computed: Undefined, or      *)
(* Defined(the table).                                                      *)
NewBudget(id) ==
    [id |-> id, name |-> "New Budget", startDate |-> 0, endDate |-> MaxDate,
     currencyCode |-> "USD", accounts |-> <<>>, categoryGroups |-> <<>>,
     categories |-> <<>>, transactions |-> <<>>,
     _accountBalances |-> Undefined, _transactionAccountBalances |-> Undefined]

Budget_checkInvariants(b) ==
    /\ b.currencyCode \in SUPPORTED_CURRENCIES
    /\ b.endDate >= b.startDate
    /\ \A i \in DOMAIN b.categories : Category_validate(b.categories[i], b)
    /\ \A i \in DOMAIN b.transactions : Transaction_validate(b.transactions[i], b)

(* Record.set and withMutations build the new record from the prototype    *)
(* and the new map of fields: the instance fields of the record it is made  *)
(* from are not carried over.                                               *)
makeRecord(b) ==
    [b EXCEPT !._accountBalances = Undefined,
              !._transactionAccountBalances = Undefined]

(* A new Budget that keeps the tables of the Budget it was made from *)
CheckedKeepingBalances(b) == IF Budget_checkInvariants(b) THEN b ELSE Throw

(* PRecord.set / merge / withMutations on a Budget: the new record is       *)
(* returned only if its invariants hold, otherwise the call throws.  (When  *)
(* nothing changes Immutable returns the same object, tables included; an   *)
(* equal Budget computes equal tables.)                                     *)
Checked(b) == IF Budget_checkInvariants(b) THEN makeRecord(b) ELSE Throw

transactionSorter(t) == IF t.date = Null THEN 999999 ELSE t.date

(* Transactions left in the order they were given *)
Unsorted(txns) == txns

SortTransactions(txns) ==
    SortByKeys(txns, [i \in DOMAIN txns |-> transactionSorter(txns[i])])

(* The categories left in the order given, not sorted by group *)
keepCategoryOrder(categories, categoryGroups) == categories

(* _createOrderedCategoryMap: a category whose group is missing gets the    *)
(* key undefined, which compares equal to everything; the Budget built from *)
(* such a map never passes its invariants.                                  *)
createOrderedCategoryMap(categories, categoryGroups) ==
    SortByKeys(categories,
        [i \in DOMAIN categories |->
            IF Has(categoryGroups, categories[i].groupId)
            THEN keyOf(categoryGroups, categories[i].groupId) ELSE 0])

(* OrderedMap(Seq.Indexed(values).map(v => [v.id, v])): a repeated id keeps *)
(* its first place and its last value.                                      *)
RECURSIVE FromEntries(_, _, _)
FromEntries(m, values, i) ==
    IF i > Len(values) THEN m
    ELSE FromEntries(MapSet(m, values[i]), values, i + 1)

(* new Budget(values): values holds any of id, name, startDate, endDate,    *)
(* currencyCode, accounts, categoryGroups, categories and transactions.     *)
Budget(values) ==
    LET Given(k) == IF k \in DOMAIN values THEN values[k] ELSE <<>>
        categoryGroups == FromEntries(<<>>, Given("categoryGroups"), 1)
    IN IF "categories" \in DOMAIN values /\ "categoryGroups" \notin DOMAIN values
       THEN Throw
       ELSE Checked(
              [NewBudget(IF "id" \in DOMAIN values THEN values.id ELSE Null) EXCEPT
                 !.name = IF "name" \in DOMAIN values THEN values.name ELSE @,
                 !.currencyCode = IF "currencyCode" \in DOMAIN values
                                  THEN values.currencyCode ELSE @,
                 !.startDate = IF "startDate" \in DOMAIN values
                               THEN values.startDate ELSE @,
                 !.endDate = IF "endDate" \in DOMAIN values
                             THEN values.endDate ELSE @,
                 !.accounts = FromEntries(<<>>, Given("accounts"), 1),
                 !.categoryGroups = categoryGroups,
                 !.categories =
                     FromEntries(<<>>,
                         createOrderedCategoryMap(Given("categories"), categoryGroups), 1),
                 !.transactions =
                     FromEntries(<<>>, SortTransactions(Given("transactions")), 1)])

majorVersion == 0
minorVersion == 2

(* Budget.toJS(): the fields of the record, with the four ordered maps as   *)
(* arrays of plain objects in the order of the maps, and the version.  A    *)
(* date is written as its value.                                            *)
Budget_toJS(b) ==
    [id |-> b.id, name |-> b.name, startDate |-> b.startDate,
     endDate |-> b.endDate, currencyCode |-> b.currencyCode,
     accounts |-> [i \in DOMAIN b.accounts |-> b.accounts[i]],
     categories |-> [i \in DOMAIN b.categories |-> b.categories[i]],
     categoryGroups |-> [i \in DOMAIN b.categoryGroups |-> b.categoryGroups[i]],
     transactions |-> [i \in DOMAIN b.transactions |-> b.transactions[i]],
     version |-> [major |-> majorVersion, minor |-> minorVersion]]

(* Budget.fromJS(obj): each entry of the four arrays becomes a record of    *)
(* its type (the constructor of the type checks its invariants), and the    *)
(* Budget is constructed from the values; the version is no field of the    *)
(* record and is dropped.                                                   *)
Budget_fromJS(obj) ==
    LET accounts ==
          [i \in DOMAIN obj.accounts |-> Merge(NewAccount(Null), obj.accounts[i])]
        categories ==
          [i \in DOMAIN obj.categories |->
             Merge(NewCategory(Null), Category_cleanArgs(obj.categories[i]))]
        categoryGroups ==
          [i \in DOMAIN obj.categoryGroups |->
             Merge(NewCategoryGroup(Null), obj.categoryGroups[i])]
        transactions ==
          [i \in DOMAIN obj.transactions |->
             Merge(NewTransaction(Null),
                   [obj.transactions[i] EXCEPT !.detail =
                      [j \in DOMAIN @ |-> Merge(NewTransactionDetail, @[j])]])]
    IN IF /\ \A i \in DOMAIN accounts : Account_checkInvariants(accounts[i])
          /\ \A i \in DOMAIN categories : Category_checkInvariants(categories[i])
          /\ \A i \in DOMAIN transactions :
                Transaction_checkInvariants(transactions[i])
       THEN Budget([id |-> obj.id, name |-> obj.name, startDate |-> obj.startDate,
                    endDate |-> obj.endDate, currencyCode |-> obj.currencyCode,
                    accounts |-> accounts, categoryGroups |-> categoryGroups,
                    categories |-> categories, transactions |-> transactions])
       ELSE Throw

(* The category removed and the transactions left as they were, with no    *)
(* check of the invariants                                                  *)
deleteCategoryOnly(b, id) == [b EXCEPT !.categories = MapDelete(b.categories, id)]

deleteCategory(b, id) ==
    LET transactions ==
          [i \in DOMAIN b.transactions |->
             [b.transactions[i] EXCEPT !.detail =
                [j \in DOMAIN b.transactions[i].detail |->
                   [b.transactions[i].detail[j] EXCEPT !.categoryId =
                      IF @ = id THEN Null ELSE @]]]]
    IN Checked([b EXCEPT !.categories = MapDelete(b.categories, id),
                         !.transactions = transactions])

updateCategory(b, category) ==
    IF category.id = Null THEN Throw
    ELSE IF ~Has(b.categories, category.id)
            \/ Get(b.categories, category.id).groupId # category.groupId
    THEN LET moved == Append(MapDelete(b.categories, category.id), category)
         IN Checked([b EXCEPT !.categories =
                        createOrderedCategoryMap(moved, b.categoryGroups)])
    ELSE Checked([b EXCEPT !.categories = MapSet(b.categories, category)])

GroupCategories(b, groupId) ==
    SelectSeq(b.categories, LAMBDA c : c.groupId = groupId)

positionCategory(b, categoryId, newIndex) ==
    IF ~Has(b.categories, categoryId) THEN Throw
    ELSE LET category == Get(b.categories, categoryId)
             groupCategories == GroupCategories(b, category.groupId)
             currentIndexOverall == keyOf(b.categories, categoryId)
             currentIndexWithinGroup == keyOf(groupCategories, categoryId)
             newIndexOverall ==
                 currentIndexOverall + (newIndex - currentIndexWithinGroup)
         IN IF ~(newIndex >= 0 /\ newIndex <= Len(groupCategories)) THEN Throw
            ELSE Checked([b EXCEPT !.categories =
                    ListInsert(MapDelete(b.categories, categoryId),
                               newIndexOverall, category)])

(* The group removed with no assertion and no check of the invariants *)
deleteCategoryGroupUnchecked(b, id) ==
    [b EXCEPT !.categoryGroups = MapDelete(b.categoryGroups, id)]

deleteCategoryGroup(b, id) ==
    IF \E i \in DOMAIN b.categories : b.categories[i].groupId = id THEN Throw
    ELSE Checked([b EXCEPT !.categoryGroups = MapDelete(b.categoryGroups, id)])

updateCategoryGroup(b, categoryGroup) ==
    IF categoryGroup.id = Null THEN Throw
    ELSE Checked([b EXCEPT !.categoryGroups =
                     MapSet(b.categoryGroups, categoryGroup)])

positionCategoryGroup(b, groupId, newIndex) ==
    IF ~Has(b.categoryGroups, groupId) THEN Throw
    ELSE Checked([b EXCEPT !.categoryGroups =
            ListInsert(MapDelete(b.categoryGroups, groupId), newIndex,
                       Get(b.categoryGroups, groupId))])

(* The account removed and the transactions left as they were, with no     *)
(* check of the invariants                                                  *)
deleteAccountOnly(b, id) == [b EXCEPT !.accounts = MapDelete(b.accounts, id)]

deleteAccount(b, id) ==
    LET transactions ==
          [i \in DOMAIN b.transactions |->
             IF b.transactions[i].accountId = id
             THEN [b.transactions[i] EXCEPT !.accountId = Null]
             ELSE b.transactions[i]]
    IN Checked([b EXCEPT !.accounts = MapDelete(b.accounts, id),
                         !.transactions = transactions])

updateAccount(b, newAccount) ==
    IF newAccount.id = Null THEN Throw
    ELSE Checked([b EXCEPT !.accounts = MapSet(b.accounts, newAccount)])

(* The account put back at the end of the list, whatever the index *)
positionAccountLast(b, accountId, newIndex) ==
    IF ~Has(b.accounts, accountId) THEN Throw
    ELSE [b EXCEPT !.accounts =
            Append(MapDelete(b.accounts, accountId), Get(b.accounts, accountId))]

positionAccount(b, accountId, newIndex) ==
    IF ~Has(b.accounts, accountId) THEN Throw
    ELSE Checked([b EXCEPT !.accounts =
            ListInsert(MapDelete(b.accounts, accountId), newIndex,
                       Get(b.accounts, accountId))])

deleteTransaction(b, id) ==
    Checked([b EXCEPT !.transactions = MapDelete(b.transactions, id)])

(* The transaction stored with no assertion and no check of the invariants *)
updateTransactionUnchecked(b, newTransaction) ==
    [b EXCEPT !.transactions = MapSet(b.transactions, newTransaction)]

updateTransaction(b, newTransaction) ==
    IF newTransaction.id = Null THEN Throw
    ELSE IF ~(newTransaction.accountId = Null
              \/ Has(b.accounts, newTransaction.accountId)) THEN Throw
    ELSE LET id == newTransaction.id
             sortRequired ==
                 IF Has(b.transactions, id)
                 THEN newTransaction.date # Get(b.transactions, id).date
                 ELSE newTransaction.date # Null
             newTransactions == MapSet(b.transactions, newTransaction)
         IN Checked([b EXCEPT !.transactions =
                IF sortRequired THEN SortTransactions(newTransactions)
                ELSE newTransactions])

----------------------------------------------------------------------------
(* Balances *)

(* obj[key] of a JavaScript object, and obj[key] = value *)
Lookup(obj, key) == IF key \in DOMAIN obj THEN Defined(obj[key]) ELSE Undefined

Put(obj, key, value) ==
    [k \in DOMAIN obj \cup {key} |-> IF k = key THEN value ELSE obj[k]]

(* A pass over the transactions that counts the pending ones as well *)
RECURSIVE computeBalancesWithPendingFrom(_, _, _, _)
computeBalancesWithPendingFrom(transactions, i, accountBalances, transactionBalances) ==
    IF i > Len(transactions)
    THEN [accountBalances |-> accountBalances,
          transactionBalances |-> transactionBalances]
    ELSE LET transaction == transactions[i] IN
         IF transaction.accountId = Null
         THEN computeBalancesWithPendingFrom(transactions, i + 1, accountBalances,
                                             transactionBalances)
         ELSE LET balance == accountBalances[transaction.accountId]
                               + Transaction_amount(transaction)
              IN computeBalancesWithPendingFrom(transactions, i + 1,
                    [accountBalances EXCEPT ![transaction.accountId] = balance],
                    IF transaction.id # Null
                    THEN Put(transactionBalances, transaction.id, balance)
                    ELSE transactionBalances)

(* The loop of _computeBalances over this.transactions.values() *)
RECURSIVE computeBalancesFrom(_, _, _, _)
computeBalancesFrom(transactions, i, accountBalances, transactionBalances) ==
    IF i > Len(transactions)
    THEN [accountBalances |-> accountBalances,
          transactionBalances |-> transactionBalances]
    ELSE LET transaction == transactions[i] IN
         IF transaction.pending \/ transaction.accountId = Null
         THEN computeBalancesFrom(transactions, i + 1, accountBalances,
                                  transactionBalances)
         ELSE LET balance == accountBalances[transaction.accountId]
                               + Transaction_amount(transaction)
              IN computeBalancesFrom(transactions, i + 1,
                    [accountBalances EXCEPT ![transaction.accountId] = balance],
                    IF transaction.id # Null
                    THEN Put(transactionBalances, transaction.id, balance)
                    ELSE transactionBalances)

(* _computeBalances: the Budget with its two tables filled in *)
computeBalances(b) ==
    IF b._accountBalances # Undefined THEN Throw
    ELSE LET initial == [id \in {b.accounts[i].id : i \in DOMAIN b.accounts} |->
                            Get(b.accounts, id).initialBalance]
             tables == computeBalancesFrom(b.transactions, 1, initial, <<>>)
         IN [b EXCEPT !._accountBalances = Defined(tables.accountBalances),
                      !._transactionAccountBalances =
                          Defined(tables.transactionBalances)]

(* The Budget object once its balances have been asked for *)
withBalances(b) ==
    IF b._accountBalances = Undefined THEN computeBalances(b) ELSE b

(* get accountBalances *)
accountBalances(b) == withBalances(b)._accountBalances.value

(* The result is Throw, Undefined or Defined(the balance). *)
accountBalanceAsOfTransaction(b, transactionId, accountId) ==
    IF ~Has(b.accounts, accountId) THEN Throw
    ELSE IF ~Has(b.transactions, transactionId) THEN Throw
    ELSE LET account == Get(b.accounts, accountId)
             transaction == Get(b.transactions, transactionId)
             transactionAccountBalances ==
                 withBalances(b)._transactionAccountBalances.value
         IN IF transaction.date = Null \/ transaction.pending THEN Undefined
            ELSE IF transaction.accountId = accountId
            THEN Lookup(transactionAccountBalances, transactionId)
            ELSE LET transactions ==
                         SelectSeq(b.transactions,
                                   LAMBDA txn : txn.date # Null /\ ~txn.pending)
                     index == keyOf(transactions, transactionId)
                     precedingTransactions == SubSeq(transactions, 1, index)
                     found == {k \in DOMAIN precedingTransactions :
                                  precedingTransactions[k].accountId = accountId}
                 IN IF found # {}
                    THEN Lookup(transactionAccountBalances,
                            precedingTransactions[
                               CHOOSE k \in found : \A l \in found : l <= k].id)
                    ELSE Defined(account.initialBalance)

(* The Budget object after accountBalanceAsOfTransaction has run *)
afterAccountBalanceAsOfTransaction(b, transactionId, accountId) ==
    IF ~Has(b.accounts, accountId) \/ ~Has(b.transactions, transactionId) THEN b
    ELSE LET transaction == Get(b.transactions, transactionId)
         IN IF transaction.date = Null \/ transaction.pending THEN b
            ELSE withBalances(b)

(* An Immutable.Map of numbers by id, and map.get(key, notSetValue) *)
MapOf(entries) == [map |-> entries]

MapGet(m, key, notSetValue) ==
    IF key \in DOMAIN m.map THEN m.map[key] ELSE notSetValue

(* txn.detail.forEach: every detail with a category adds its amount *)
RECURSIVE addDetails(_, _, _)
addDetails(entries, detail, j) ==
    IF j > Len(detail) THEN entries
    ELSE addDetails(
            IF detail[j].categoryId # Null
            THEN Put(entries, detail[j].categoryId,
                     MapGet(MapOf(entries), detail[j].categoryId, 0)
                       + detail[j].amount)
            ELSE entries,
            detail, j + 1)

(* A loop that passes over the pending transactions *)
RECURSIVE categoryBalancesSkippingPendingFrom(_, _, _, _)
categoryBalancesSkippingPendingFrom(transactions, i, date, entries) ==
    IF i > Len(transactions) THEN entries
    ELSE LET txn == transactions[i] IN
         IF txn.date = Null \/ txn.date > date THEN entries
         ELSE categoryBalancesSkippingPendingFrom(transactions, i + 1, date,
                 IF txn.pending THEN entries
                 ELSE addDetails(entries, txn.detail, 1))

(* The loop of categoryBalancesOnDate, which stops at the first transaction *)
(* that has no date or is dated after the date                              *)
RECURSIVE categoryBalancesFrom(_, _, _, _)
categoryBalancesFrom(transactions, i, date, entries) ==
    IF i > Len(transactions) THEN entries
    ELSE LET txn == transactions[i] IN
         IF txn.date = Null \/ txn.date > date THEN entries
         ELSE categoryBalancesFrom(transactions, i + 1, date,
                                   addDetails(entries, txn.detail, 1))

categoryBalancesOnDate(b, date) ==
    IF ~(date >= b.startDate) \/ ~(date <= b.endDate) THEN Throw
    ELSE MapOf(categoryBalancesFrom(b.transactions, 1, date, <<>>))

(* The budgeted amount of a category with rules *)
RECURSIVE budgetAmountFrom(_, _, _, _)
budgetAmountFrom(rules, i, startDate, date) ==
    IF i > Len(rules) THEN 0
    ELSE rules[i].amount * countOccurrencesBetween(rules[i], startDate, date)
           + budgetAmountFrom(rules, i + 1, startDate, date)

(* A budgeted amount that counts the occurrences up to the end of the Budget *)
categoryBudgetToEndOfBudget(b, category, date) ==
    IF category.rules = NullRules
    THEN MapGet(categoryBalancesOnDate(b, date), category.id, 0)
    ELSE budgetAmountFrom(category.rules.list, 1, b.startDate, b.endDate)

(* The body of the loop of categoryBudgetsOnDate: the amount of one category *)
categoryBudget(b, category, date) ==
    IF category.rules = NullRules
    THEN MapGet(categoryBalancesOnDate(b, date), category.id, 0)
    ELSE budgetAmountFrom(category.rules.list, 1, b.startDate, date)

categoryBudgetsOnDate(b, date) ==
    IF ~(date >= b.startDate) \/ ~(date <= b.endDate) THEN Throw
    ELSE MapOf([id \in {b.categories[i].id : i \in DOMAIN b.categories} \ {Null} |->
                  categoryBudget(b, Get(b.categories, id), date)])

----------------------------------------------------------------------------
(* The reducer *)

(* A reducer that finds no key in any command *)
NeverPresent(action, key) == FALSE

Present(action, key) == key \in DOMAIN action

(* A loop that links every listed transaction, linked already or not *)
RECURSIVE linkListedTransactionsFrom(_, _, _, _, _)
linkListedTransactionsFrom(newState, nullTransactions, list, i, accountId) ==
    IF newState = Throw \/ i > Len(list) THEN newState
    ELSE linkListedTransactionsFrom(
            IF Has(newState.transactions, list[i])
            THEN updateTransaction(newState,
                    [Get(newState.transactions, list[i]) EXCEPT !.accountId = accountId])
            ELSE newState,
            nullTransactions, list, i + 1, accountId)

(* UPDATE_ACCOUNT's linkNullTransactions loop.  nullTransactions is the     *)
(* snapshot taken before the loop; each linked transaction is taken from it.*)
RECURSIVE linkNullTransactionsFrom(_, _, _, _, _)
linkNullTransactionsFrom(newState, nullTransactions, list, i, accountId) ==
    IF newState = Throw \/ i > Len(list) THEN newState
    ELSE linkNullTransactionsFrom(
            IF Has(nullTransactions, list[i])
            THEN updateTransaction(newState,
                    [Get(nullTransactions, list[i]) EXCEPT !.accountId = accountId])
            ELSE newState,
            nullTransactions, list, i + 1, accountId)

(* An update that replaces the categoryId of the row whatever it was *)
replaceDetailCategory(txn, detailsIndex, categoryId) ==
    IF detailsIndex + 1 \in DOMAIN txn.detail
    THEN [txn EXCEPT !.detail[detailsIndex + 1].categoryId = categoryId]
    ELSE txn

(* txn.updateIn(['detail', detailsIndex, 'categoryId'], ...): only a null   *)
(* categoryId is replaced; an index outside the list changes nothing.       *)
linkDetail(txn, detailsIndex, categoryId) ==
    IF detailsIndex + 1 \in DOMAIN txn.detail
       /\ txn.detail[detailsIndex + 1].categoryId = Null
    THEN [txn EXCEPT !.detail[detailsIndex + 1].categoryId = categoryId]
    ELSE txn

(* UPDATE_CATEGORY's linkTransactionDetails loop over (txnId, detailsIndex) *)
RECURSIVE linkTransactionDetailsFrom(_, _, _, _)
linkTransactionDetailsFrom(newState, list, i, categoryId) ==
    IF newState = Throw \/ i > Len(list) THEN newState
    ELSE linkTransactionDetailsFrom(
            IF Has(newState.transactions, list[i][1])
            THEN LET txn == linkDetail(Get(newState.transactions, list[i][1]),
                                       list[i][2], categoryId)
                 IN IF Transaction_checkInvariants(txn)
                    THEN updateTransaction(newState, txn) ELSE Throw
            ELSE newState,
            list, i + 1, categoryId)

(* One statement of a case, `if (key in action) { newState = ... }`: it is   *)
(* run on the state the statements before it have made, unless one of them  *)
(* threw.                                                                   *)
ThenIf(newState, present, Statement(_)) ==
    IF newState # Throw /\ present THEN Statement(newState) ELSE newState

reduceUpdateAccount(state_, action) ==
    LET existing == Has(state_.accounts, action.id)
        acct == IF existing THEN Get(state_.accounts, action.id)
                ELSE NewAccount(action.id)
    IN ThenIf(
         ThenIf(
           ThenIf(state_, Present(action, "data"),
             LAMBDA s0 :
               IF "id" \in DOMAIN action.data THEN Throw
               ELSE IF ~Account_checkInvariants(Merge(acct, action.data))
               THEN Throw
               ELSE updateAccount(s0, Merge(acct, action.data))),
           Present(action, "linkNullTransactions"),
           LAMBDA s1 :
             IF existing THEN Throw
             ELSE linkNullTransactionsFrom(s1,
                     SelectSeq(s1.transactions, LAMBDA t : t.accountId = Null),
                     action.linkNullTransactions, 1, action.id)),
         Present(action, "index"),
         LAMBDA s2 : positionAccount(s2, action.id, action.index))

reduceUpdateCategory(state_, action) ==
    LET existing == Has(state_.categories, action.id)
        category == IF existing THEN Get(state_.categories, action.id)
                    ELSE NewCategory(action.id)
    IN ThenIf(
         ThenIf(
           ThenIf(state_, Present(action, "data"),
             LAMBDA s0 :
               IF "id" \in DOMAIN action.data THEN Throw
               ELSE LET merged == Merge(category, Category_cleanArgs(action.data))
                    IN IF ~Category_checkInvariants(merged) THEN Throw
                       ELSE updateCategory(s0, merged)),
           Present(action, "index"),
           LAMBDA s1 : positionCategory(s1, action.id, action.index)),
         Present(action, "linkTransactionDetails"),
         LAMBDA s2 :
           IF existing THEN Throw
           ELSE linkTransactionDetailsFrom(s2, action.linkTransactionDetails,
                                           1, action.id))

reduceUpdateCategoryGroup(state_, action) ==
    LET group == IF Has(state_.categoryGroups, action.id)
                 THEN Get(state_.categoryGroups, action.id)
                 ELSE NewCategoryGroup(action.id)
    IN ThenIf(
         ThenIf(state_, Present(action, "data"),
           LAMBDA s0 :
             IF "id" \in DOMAIN action.data THEN Throw
             ELSE updateCategoryGroup(s0, Merge(group, action.data))),
         Present(action, "index"),
         LAMBDA s1 : positionCategoryGroup(s1, action.id, action.index))

reduceUpdateTransaction(state_, action) ==
    IF ~Present(action, "data") THEN Throw
    ELSE IF "id" \in DOMAIN action.data THEN Throw
    ELSE LET txn == IF Has(state_.transactions, action.id)
                    THEN Get(state_.transactions, action.id)
                    ELSE NewTransaction(action.id)
             merged == Merge(txn, action.data)
         IN IF Transaction_checkInvariants(merged)
            THEN updateTransaction(state_, merged) ELSE Throw

(* The dates stored with no check of the invariants *)
reduceSetDateUnchecked(state_, action) ==
    [state_ EXCEPT
        !.startDate = IF "startDate" \in DOMAIN action THEN action.startDate ELSE @,
        !.endDate = IF "endDate" \in DOMAIN action THEN action.endDate ELSE @]

reduceSetDate(state_, action) ==
    Checked([state_ EXCEPT
        !.startDate = IF Present(action, "startDate") THEN action.startDate ELSE @,
        !.endDate = IF Present(action, "endDate") THEN action.endDate ELSE @])

RECURSIVE reducer(_, _)
RECURSIVE reduceSubActions(_, _, _, _)

(* The sub-actions applied from the last to the first *)
RECURSIVE reduceSubActionsBackwards(_, _, _, _)
reduceSubActionsBackwards(state_, newState, subActions, i) ==
    IF newState = Throw \/ i > Len(subActions) THEN newState
    ELSE LET subAction == subActions[Len(subActions) + 1 - i] IN
         IF ~(subAction.type = UPDATE_TRANSACTION
              \/ subAction.type = DELETE_TRANSACTION) THEN Throw
         ELSE IF ~("budgetId" \notin DOMAIN subAction
                   \/ subAction.budgetId = state_.id) THEN Throw
         ELSE reduceSubActionsBackwards(state_, reducer(newState, subAction),
                                        subActions, i + 1)

(* UPDATE_MULTIPLE_TRANSACTIONS: state_ is the state the command was        *)
(* dispatched on, newState the running state.                               *)
reduceSubActions(state_, newState, subActions, i) ==
    IF newState = Throw \/ i > Len(subActions) THEN newState
    ELSE LET subAction == subActions[i] IN
         IF ~(subAction.type = UPDATE_TRANSACTION
              \/ subAction.type = DELETE_TRANSACTION) THEN Throw
         ELSE IF ~(~Present(subAction, "budgetId")
                   \/ subAction.budgetId = state_.id) THEN Throw
         ELSE reduceSubActions(state_, reducer(newState, subAction),
                               subActions, i + 1)

reducer(state_, action) ==
    IF ~startsWith(action.type, PROPHECY_ACTION_PREFIX) THEN state_
    ELSE IF Present(action, "budgetId") /\ action.budgetId # state_.id THEN state_
    ELSE CASE action.type = SET_CURRENCY ->
                Checked([state_ EXCEPT !.currencyCode = action.currencyCode])
           [] action.type = SET_DATE -> reduceSetDate(state_, action)
           [] action.type = SET_NAME -> Checked([state_ EXCEPT !.name = action.name])
           [] action.type = DELETE_ACCOUNT -> deleteAccount(state_, action.id)
           [] action.type = UPDATE_ACCOUNT -> reduceUpdateAccount(state_, action)
           [] action.type = DELETE_CATEGORY -> deleteCategory(state_, action.id)
           [] action.type = UPDATE_CATEGORY -> reduceUpdateCategory(state_, action)
           [] action.type = DELETE_CATEGORY_GROUP ->
                deleteCategoryGroup(state_, action.id)
           [] action.type = UPDATE_CATEGORY_GROUP ->
                reduceUpdateCategoryGroup(state_, action)
           [] action.type = DELETE_TRANSACTION -> deleteTransaction(state_, action.id)
           [] action.type = UPDATE_TRANSACTION -> reduceUpdateTransaction(state_, action)
           [] action.type = UPDATE_MULTIPLE_TRANSACTIONS ->
                reduceSubActions(state_, state_, action.subActions, 1)
           [] OTHER -> state_

----------------------------------------------------------------------------
(* The inverter *)

(* inverter() returning null: the switch matched no case. *)
InvNull == [null |-> TRUE]

(* `acctJS[key] !== action.data[key]`: arrays and objects are compared by   *)
(* reference, so a `detail` key always counts as changed.                   *)
Differs(key, old, new) == key = "detail" \/ old # new

(* for (let key in action.data) if (recJS[key] !== action.data[key]) ... *)
DataDiff(rec, data) ==
    LET keys == {k \in DOMAIN data \cap DOMAIN rec : Differs(k, rec[k], data[k])}
    IN [k \in keys |-> rec[k]]

(* `if ('index' in action) { if (action.index !== oldIndex) inverse.index = oldIndex }` *)
WithOldIndex(inverse, action, oldIndex) ==
    IF Present(action, "index") /\ action.index # oldIndex
    THEN inverse @@ [index |-> oldIndex]
    ELSE inverse

(* The inverse of an UPDATE_* of an existing record *)
UpdateInverse(action, rec, oldIndex) ==
    WithOldIndex(
        IF Present(action, "data")
        THEN [id |-> action.id, data |-> DataDiff(rec, action.data)]
        ELSE [id |-> action.id],
        action, oldIndex)

(* ids of the transactions linked to an account, in transaction order *)
LinkedTransactionIds(state_, accountId) ==
    LET linked == SelectSeq(state_.transactions, LAMBDA t : t.accountId = accountId)
    IN [i \in DOMAIN linked |-> linked[i].id]

(* (transaction id, detail index) of every detail row of a category *)
RECURSIVE DetailLinks(_, _, _, _)
DetailLinks(transactions, categoryId, i, j) ==
    IF i > Len(transactions) THEN <<>>
    ELSE IF j > Len(transactions[i].detail)
    THEN DetailLinks(transactions, categoryId, i + 1, 1)
    ELSE (IF transactions[i].detail[j].categoryId = categoryId
          THEN <<(<<transactions[i].id, j - 1>>)>> ELSE <<>>)
         \o DetailLinks(transactions, categoryId, i, j + 1)

Reverse(s) == [i \in DOMAIN s |-> s[Len(s) + 1 - i]]

RECURSIVE inverter(_, _)
RECURSIVE invertSubActions(_, _, _, _)

(* `return ACTION.NOOP`: the switch returns the string, not a command. *)
NoopString == [string |-> NOOP]

(* The switch of inverter(): the inverse's parameters, the string NOOP      *)
(* (for a delete of a missing record), or InvNull when no case matches.     *)
inverterSwitch(state_, action) ==
    CASE action.type = NOOP -> <<>>
      [] action.type = SET_CURRENCY -> [currencyCode |-> state_.currencyCode]
      [] action.type = SET_DATE ->
            [k \in {"startDate", "endDate"} \cap DOMAIN action |-> state_[k]]
      [] action.type = SET_NAME -> [name |-> state_.name]
      [] action.type = DELETE_ACCOUNT ->
            IF Has(state_.accounts, action.id)
            THEN [type |-> UPDATE_ACCOUNT, id |-> action.id,
                  data |-> toJSWithoutId(Get(state_.accounts, action.id)),
                  linkNullTransactions |-> LinkedTransactionIds(state_, action.id),
                  index |-> keyOf(state_.accounts, action.id)]
            ELSE NoopString
      [] action.type = UPDATE_ACCOUNT ->
            IF Has(state_.accounts, action.id)
            THEN UpdateInverse(action, Get(state_.accounts, action.id),
                               keyOf(state_.accounts, action.id))
            ELSE [type |-> DELETE_ACCOUNT, id |-> action.id]
      [] action.type = DELETE_CATEGORY ->
            IF Has(state_.categories, action.id)
            THEN LET category == Get(state_.categories, action.id) IN
                 [type |-> UPDATE_CATEGORY, id |-> action.id,
                  data |-> toJSWithoutId(category),
                  linkTransactionDetails |->
                      DetailLinks(state_.transactions, category.id, 1, 1),
                  index |-> keyOf(GroupCategories(state_, category.groupId),
                                  action.id)]
            ELSE NoopString
      [] action.type = UPDATE_CATEGORY ->
            IF Has(state_.categories, action.id)
            THEN LET category == Get(state_.categories, action.id) IN
                 UpdateInverse(action, category,
                     keyOf(GroupCategories(state_, category.groupId), action.id))
            ELSE [type |-> DELETE_CATEGORY, id |-> action.id]
      [] action.type = DELETE_CATEGORY_GROUP ->
            IF Has(state_.categoryGroups, action.id)
            THEN [type |-> UPDATE_CATEGORY_GROUP, id |-> action.id,
                  data |-> toJSWithoutId(Get(state_.categoryGroups, action.id))]
            ELSE NoopString
      [] action.type = UPDATE_CATEGORY_GROUP ->
            IF Has(state_.categoryGroups, action.id)
            THEN UpdateInverse(action, Get(state_.categoryGroups, action.id),
                               keyOf(state_.categoryGroups, action.id))
            ELSE [type |-> DELETE_CATEGORY_GROUP, id |-> action.id]
      [] action.type = DELETE_TRANSACTION ->
            IF Has(state_.transactions, action.id)
            THEN [type |-> UPDATE_TRANSACTION, id |-> action.id,
                  data |-> toJSWithoutId(Get(state_.transactions, action.id))]
            ELSE NoopString
      [] action.type = UPDATE_TRANSACTION ->
            IF Has(state_.transactions, action.id)
            THEN IF ~Present(action, "data") THEN [id |-> action.id, data |-> <<>>]
                 ELSE [id |-> action.id,
                       data |-> DataDiff(Get(state_.transactions, action.id),
                                         action.data)]
            ELSE [type |-> DELETE_TRANSACTION, id |-> action.id]
      [] action.type = UPDATE_MULTIPLE_TRANSACTIONS ->
            LET inverseSubActions ==
                    invertSubActions(state_, action.subActions, 1, <<>>)
            IN IF inverseSubActions = Throw THEN Throw
               ELSE [subActions |-> Reverse(inverseSubActions.list)]
      [] OTHER -> InvNull

(* The forEach of the UPDATE_MULTIPLE_TRANSACTIONS case: invert each        *)
(* sub-action against the running state, drop its budgetId, apply it.       *)
invertSubActions(newState, subActions, i, inverseSubActions) ==
    IF i > Len(subActions) THEN [list |-> inverseSubActions]
    ELSE LET inverseSubAction == inverter(newState, subActions[i])
             next == reducer(newState, subActions[i])
         IN IF inverseSubAction = Throw \/ inverseSubAction = InvNull
               \/ next = Throw
            THEN Throw
            ELSE invertSubActions(next, subActions, i + 1,
                    Append(inverseSubActions,
                           [k \in DOMAIN inverseSubAction \ {"budgetId"} |->
                               inverseSubAction[k]]))

(* inverter(state, action).  The module is strict-mode code, so assigning   *)
(* `result.type` when result is the string NOOP throws a TypeError.         *)
inverter(state_, action) ==
    LET result == inverterSwitch(state_, action) IN
    IF result = Throw THEN Throw
    ELSE IF result = InvNull THEN InvNull
    ELSE IF result = NoopString THEN Throw
    ELSE [type |-> IF "type" \in DOMAIN result THEN result.type ELSE action.type,
          budgetId |-> state_.id]
         @@ [k \in DOMAIN result \ {"type", "budgetId"} |-> result[k]]

----------------------------------------------------------------------------
(* The store: commands are dispatched one after another; a command that    *)
(* throws leaves the store's Budget as it was.  prev, cmd and thrown record *)
(* the last dispatch: the Budget it was applied to, the command, and        *)
(* whether the reducer threw.                                               *)

BudgetIds == {Null, 15}

InitBudget(b) ==
    /\ state = b
    /\ prev = b
    /\ cmd = [type |-> NOOP]
    /\ thrown = FALSE

Init == \E id \in BudgetIds : InitBudget(NewBudget(id))

(* The store after the reducer has run: its new state, or the state it had  *)
(* when the reducer threw.                                                  *)
Dispatched(action, next) ==
    /\ prev' = state
    /\ cmd' = action
    /\ thrown' = (next = Throw)
    /\ state' = IF next = Throw THEN state ELSE next

Dispatch(action) == Dispatched(action, reducer(state, action))

AccountIds == 1..MaxAccountId
GroupIds == 1..MaxGroupId
CategoryIds == 1..MaxCategoryId
TxnIds == 1..MaxTxnId
Dates == 0..MaxDate

(* With or without a budgetId; 999 is no Budget's id. *)
WithBudgetId(c) == {c} \cup {c @@ [budgetId |-> b] : b \in BudgetIds \cup {999}}

RecognizedTypes ==
    {SET_CURRENCY, SET_DATE, SET_NAME, DELETE_ACCOUNT, UPDATE_ACCOUNT,
     DELETE_CATEGORY, UPDATE_CATEGORY, DELETE_CATEGORY_GROUP,
     UPDATE_CATEGORY_GROUP, DELETE_TRANSACTION, UPDATE_TRANSACTION,
     UPDATE_MULTIPLE_TRANSACTIONS}

DeleteTypes ==
    {DELETE_ACCOUNT, DELETE_CATEGORY, DELETE_CATEGORY_GROUP, DELETE_TRANSACTION}

(* The collection a DELETE_* command deletes from *)
DeleteTarget(s, type) ==
    CASE type = DELETE_ACCOUNT -> s.accounts
      [] type = DELETE_CATEGORY -> s.categories
      [] type = DELETE_CATEGORY_GROUP -> s.categoryGroups
      [] type = DELETE_TRANSACTION -> s.transactions

(* The command is one that a dispatch hands to a case of the switch. *)
Applies(s, c) ==
    /\ c.type \in RecognizedTypes
    /\ ~Present(c, "budgetId") \/ c.budgetId = s.id

----------------------------------------------------------------------------
(* Budget settings: the commands that set the name, the currency and the   *)
(* date range, commands of other reducers and other Budgets, and deletes   *)
(* of records that do not exist.                                            *)

SetNameCmds == WithBudgetId([type |-> SET_NAME, name |-> "Household"])

SetCurrencyCmds ==
    UNION {WithBudgetId([type |-> SET_CURRENCY, currencyCode |-> c]) :
              c \in {"CAD", "ZZZ"}}

SetDateCmds ==
    UNION {WithBudgetId(c) :
        c \in {[type |-> SET_DATE, startDate |-> d] : d \in Dates}
              \cup {[type |-> SET_DATE, endDate |-> d] : d \in Dates}
              \cup {[type |-> SET_DATE, startDate |-> d, endDate |-> e] :
                       d \in Dates, e \in Dates}}

(* A command of another reducer, and a prefixed type the switch lacks *)
ForeignCmds == WithBudgetId([type |-> "SET_NAME", name |-> "Household"])
UnrecognizedCmds ==
    WithBudgetId([type |-> PROPHECY_ACTION_PREFIX \o "SET_COLOUR", name |-> "Household"])

DeleteMissingCmds == UNION {WithBudgetId([type |-> t, id |-> 1]) : t \in DeleteTypes}

SetName == \E c \in SetNameCmds : c.type = SET_NAME /\ Dispatch(c)
SetCurrency == \E c \in SetCurrencyCmds : c.type = SET_CURRENCY /\ Dispatch(c)
SetDate == \E c \in SetDateCmds : c.type = SET_DATE /\ Dispatch(c)
Noop == \E c \in WithBudgetId([type |-> NOOP]) : c.type = NOOP /\ Dispatch(c)
Foreign ==
    \E c \in ForeignCmds :
        ~startsWith(c.type, PROPHECY_ACTION_PREFIX) /\ Dispatch(c)
Unrecognized ==
    \E c \in UnrecognizedCmds : c.type \notin RecognizedTypes /\ Dispatch(c)
DeleteMissing ==
    \E c \in DeleteMissingCmds :
        ~Has(DeleteTarget(state, c.type), c.id) /\ Dispatch(c)

Next ==
    \/ SetName
    \/ SetCurrency
    \/ SetDate
    \/ Noop
    \/ Foreign
    \/ Unrecognized
    \/ DeleteMissing

Spec == Init /\ [][Next]_vars

----------------------------------------------------------------------------------------------------------------------------------------
(* Transactions in date order: transactions are created, dated and deleted, *)
(* one at a time and in pairs; transaction 1 can be linked to an account    *)
(* and to a category, which can be deleted.                                 *)

TxnDateCmds ==
    {[type |-> UPDATE_TRANSACTION, id |-> i, data |-> [date |-> d]] :
        i \in TxnIds, d \in Dates \cup {Null}}

TxnLinkCmds ==
    {[type |-> UPDATE_TRANSACTION, id |-> 1, data |-> d] :
        d \in {[accountId |-> 1],
               [detail |-> <<[amount |-> 0, categoryId |-> 1]>>]}}

DeleteTransactionCmds == {[type |-> DELETE_TRANSACTION, id |-> i] : i \in TxnIds}

(* Date one transaction and delete another in one command *)
TxnPairCmds ==
    {[type |-> UPDATE_MULTIPLE_TRANSACTIONS, subActions |-> <<a, b>>] :
        a \in {c \in TxnDateCmds : c.data.date = 0},
        b \in DeleteTransactionCmds}

TxnUpdateTransaction ==
    \E c \in TxnDateCmds \cup TxnLinkCmds : c.type = UPDATE_TRANSACTION /\ Dispatch(c)
TxnDeleteTransaction ==
    \E c \in DeleteTransactionCmds : c.type = DELETE_TRANSACTION /\ Dispatch(c)
TxnUpdateMultiple ==
    \E c \in TxnPairCmds :
        c.subActions[1].id # c.subActions[2].id /\ Dispatch(c)
TxnUpdateAccount ==
    /\ ~Has(state.accounts, 1)
    /\ Dispatch([type |-> UPDATE_ACCOUNT, id |-> 1, data |-> [name |-> "Cash"]])
TxnDeleteAccount ==
    /\ Has(state.accounts, 1)
    /\ Dispatch([type |-> DELETE_ACCOUNT, id |-> 1])
TxnUpdateCategory ==
    /\ ~Has(state.categories, 1)
    /\ Dispatch([type |-> UPDATE_CATEGORY, id |-> 1, data |-> [groupId |-> 1]])
TxnDeleteCategory ==
    /\ Has(state.categories, 1)
    /\ Dispatch([type |-> DELETE_CATEGORY, id |-> 1])

NextTxn ==
    \/ TxnUpdateTransaction
    \/ TxnDeleteTransaction
    \/ TxnUpdateMultiple
    \/ TxnUpdateAccount
    \/ TxnDeleteAccount
    \/ TxnUpdateCategory
    \/ TxnDeleteCategory

(* Lists of transactions with distinct ids, each dated or not *)
TxnLists ==
    LET Entries == TxnIds \X (Dates \cup {Null})
        Lists == UNION {[1..k -> Entries] : k \in 0..MaxTxnId}
    IN {[i \in DOMAIN l |-> [NewTransaction(l[i][1]) EXCEPT !.date = l[i][2]]] :
           l \in {l \in Lists : \A i, j \in DOMAIN l : i # j => l[i][1] # l[j][1]}}

(* new Budget({categoryGroups: [new CategoryGroup({id: 1})], transactions}) *)
InitTxn ==
    \E transactions \in TxnLists :
        InitBudget(Budget([categoryGroups |-> <<NewCategoryGroup(1)>>,
                           transactions |-> transactions]))

SpecTxn == InitTxn /\ [][NextTxn]_vars

----------------------------------------------------------------------------
(* The compound command: one UPDATE_MULTIPLE_TRANSACTIONS command is        *)
(* dispatched to each Budget of transactions that the constructor builds.   *)

MaxSubActions == 2

(* Transactions dated 0 or undated, in any order of ids *)
MultiTxnLists ==
    {l \in TxnLists : \A i \in DOMAIN l : l[i].date \in {0, Null}}

(* The sub-actions the reducer accepts: no budgetId, or the Budget's own *)
SubActions ==
    {c \in TxnDateCmds : c.data.date \in {0, Null}}
    \cup DeleteTransactionCmds
    \cup {[type |-> DELETE_TRANSACTION, id |-> 1, budgetId |-> 15]}

(* Sub-actions of another Budget or of another type *)
ForeignSubActions ==
    {[type |-> DELETE_TRANSACTION, id |-> 1, budgetId |-> 999],
     [type |-> SET_NAME, name |-> "Household"]}

SeqsUpTo(S, n) == UNION {[1..k -> S] : k \in 0..n}

UpdateMultipleCmds ==
    {[type |-> UPDATE_MULTIPLE_TRANSACTIONS, subActions |-> subActions] :
        subActions \in SeqsUpTo(SubActions \cup ForeignSubActions, MaxSubActions)}

AllAccepted(subActions) == \A i \in DOMAIN subActions : subActions[i] \in SubActions

MultiUpdateTransactions ==
    /\ cmd.type = NOOP
    /\ \E c \in UpdateMultipleCmds : AllAccepted(c.subActions) /\ Dispatch(c)

MultiUpdateForeign ==
    /\ cmd.type = NOOP
    /\ \E c \in UpdateMultipleCmds : ~AllAccepted(c.subActions) /\ Dispatch(c)

NextMulti ==
    \/ MultiUpdateTransactions
    \/ MultiUpdateForeign

(* new Budget({id: 15, transactions}) *)
InitMulti ==
    \E transactions \in MultiTxnLists :
        InitBudget(Budget([id |-> 15, transactions |-> transactions]))

SpecMulti == InitMulti /\ [][NextMulti]_vars

----------------------------------------------------------------------------
(* Accounts and the transactions that reference them: accounts are created *)
(* and deleted, and the transactions of the Budget are linked to them.      *)

AcctUpdateAccount ==
    \E id \in AccountIds :
        /\ ~Has(state.accounts, id)
        /\ Dispatch([type |-> UPDATE_ACCOUNT, id |-> id, data |-> [name |-> "Cash"]])

AcctDeleteAccount ==
    \E id \in AccountIds :
        /\ Has(state.accounts, id)
        /\ Dispatch([type |-> DELETE_ACCOUNT, id |-> id])

AcctUpdateTransaction ==
    \E id \in TxnIds, accountId \in AccountIds \cup {Null} :
        /\ Has(state.transactions, id)
        /\ Dispatch([type |-> UPDATE_TRANSACTION, id |-> id,
                     data |-> [accountId |-> accountId]])

NextAcct ==
    \/ AcctUpdateAccount
    \/ AcctDeleteAccount
    \/ AcctUpdateTransaction

(* new Budget({transactions: [new Transaction({id: 1}), ...]}) *)
InitAcct ==
    InitBudget(Budget([transactions |-> [i \in TxnIds |-> NewTransaction(i)]]))

SpecAcct == InitAcct /\ [][NextAcct]_vars

----------------------------------------------------------------------------
(* Currencies across links: one account and the categories of one group,   *)
(* each in one of two currencies, and one transaction that can be linked to *)
(* the account and to a category.                                           *)

LinkCurrencies == {"USD", "CAD"}

(* Create the account in a currency, or change its currency *)
LinkUpdateAccount ==
    \E currencyCode \in LinkCurrencies :
        /\ Has(state.accounts, 1) =>
              Get(state.accounts, 1).currencyCode # currencyCode
        /\ Dispatch([type |-> UPDATE_ACCOUNT, id |-> 1,
                     data |-> [currencyCode |-> currencyCode]])

LinkDeleteAccount ==
    /\ Has(state.accounts, 1)
    /\ Dispatch([type |-> DELETE_ACCOUNT, id |-> 1])

(* Create a category in a currency, or change its currency *)
LinkUpdateCategory ==
    \E id \in CategoryIds, currencyCode \in LinkCurrencies :
        /\ Has(state.categories, id) =>
              Get(state.categories, id).currencyCode # currencyCode
        /\ Dispatch([type |-> UPDATE_CATEGORY, id |-> id,
                     data |-> [groupId |-> 1, currencyCode |-> currencyCode]])

LinkDeleteCategory ==
    \E id \in CategoryIds :
        /\ Has(state.categories, id)
        /\ Dispatch([type |-> DELETE_CATEGORY, id |-> id])

LinkTransactionAccount ==
    \E accountId \in {1, Null} :
        /\ Has(state.transactions, 1)
        /\ Dispatch([type |-> UPDATE_TRANSACTION, id |-> 1,
                     data |-> [accountId |-> accountId]])

LinkTransactionCategory ==
    \E categoryId \in CategoryIds \cup {Null} :
        /\ Has(state.transactions, 1)
        /\ Dispatch([type |-> UPDATE_TRANSACTION, id |-> 1,
                     data |-> [detail |->
                                 <<[amount |-> 0, categoryId |-> categoryId]>>]])

NextLink ==
    \/ LinkUpdateAccount
    \/ LinkDeleteAccount
    \/ LinkUpdateCategory
    \/ LinkDeleteCategory
    \/ LinkTransactionAccount
    \/ LinkTransactionCategory

(* new Budget({categoryGroups: [new CategoryGroup({id: 1})],                *)
(*             transactions: [new Transaction({id: 1})]})                   *)
InitLink ==
    InitBudget(Budget([categoryGroups |-> <<NewCategoryGroup(1)>>,
                       transactions |-> <<NewTransaction(1)>>]))

SpecLink == InitLink /\ [][NextLink]_vars

----------------------------------------------------------------------------
(* Categories and their groups: groups and categories are created, moved   *)
(* to an index and deleted.                                                 *)

CatUpdateCategoryGroup ==
    \E id \in GroupIds :
        /\ ~Has(state.categoryGroups, id)
        /\ Dispatch([type |-> UPDATE_CATEGORY_GROUP, id |-> id,
                     data |-> [name |-> "Housing"]])

CatPositionCategoryGroup ==
    \E id \in GroupIds, index \in 0..(MaxGroupId - 1) :
        /\ Has(state.categoryGroups, id)
        /\ Dispatch([type |-> UPDATE_CATEGORY_GROUP, id |-> id, index |-> index])

CatDeleteCategoryGroup ==
    \E id \in GroupIds :
        /\ Has(state.categoryGroups, id)
        /\ Dispatch([type |-> DELETE_CATEGORY_GROUP, id |-> id])

CatUpdateCategory ==
    \E id \in CategoryIds, groupId \in GroupIds :
        /\ Has(state.categoryGroups, groupId)
        /\ Dispatch([type |-> UPDATE_CATEGORY, id |-> id,
                     data |-> [groupId |-> groupId]])

CatPositionCategory ==
    \E id \in CategoryIds, index \in 0..MaxCategoryId :
        /\ Has(state.categories, id)
        /\ Dispatch([type |-> UPDATE_CATEGORY, id |-> id, index |-> index])

CatDeleteCategory ==
    \E id \in CategoryIds :
        /\ Has(state.categories, id)
        /\ Dispatch([type |-> DELETE_CATEGORY, id |-> id])

NextCat ==
    \/ CatUpdateCategoryGroup
    \/ CatPositionCategoryGroup
    \/ CatDeleteCategoryGroup
    \/ CatUpdateCategory
    \/ CatPositionCategory
    \/ CatDeleteCategory

(* new Budget() *)
InitCat == InitBudget(Budget(<<>>))

SpecCat == InitCat /\ [][NextCat]_vars

----------------------------------------------------------------------------
(* Groups and the category that belongs to them: groups are created and    *)
(* deleted, whether or not they are empty or present, and one category is   *)
(* assigned to a group that may or may not exist.                           *)

MaxGroups == 3

ManyGroupIds == 1..MaxGroups

GroupUpdateCategoryGroup ==
    \E id \in ManyGroupIds :
        /\ ~Has(state.categoryGroups, id)
        /\ Dispatch([type |-> UPDATE_CATEGORY_GROUP, id |-> id,
                     data |-> [name |-> "Housing"]])

GroupDeleteCategoryGroup ==
    \E id \in ManyGroupIds :
        /\ state.categoryGroups # <<>>
        /\ Dispatch([type |-> DELETE_CATEGORY_GROUP, id |-> id])

(* Create category 1 or move it; the group named need not exist *)
GroupUpdateCategory ==
    \E groupId \in ManyGroupIds :
        /\ Has(state.categories, 1) => Get(state.categories, 1).groupId # groupId
        /\ Dispatch([type |-> UPDATE_CATEGORY, id |-> 1,
                     data |-> [groupId |-> groupId]])

(* Create category 1 with no group *)
GroupUpdateCategoryNoGroup ==
    /\ ~Has(state.categories, 1)
    /\ Dispatch([type |-> UPDATE_CATEGORY, id |-> 1, data |-> [name |-> "Rent"]])

GroupDeleteCategory ==
    /\ Has(state.categories, 1)
    /\ Dispatch([type |-> DELETE_CATEGORY, id |-> 1])

NextGroup ==
    \/ GroupUpdateCategoryGroup
    \/ GroupDeleteCategoryGroup
    \/ GroupUpdateCategory
    \/ GroupUpdateCategoryNoGroup
    \/ GroupDeleteCategory

(* new Budget() *)
InitGroup == InitBudget(Budget(<<>>))

SpecGroup == InitGroup /\ [][NextGroup]_vars

----------------------------------------------------------------------------
(* Categories and the transaction details that reference them: a Budget is *)
(* built with the categories of one group and two transactions, the first   *)
(* split over two details, and categories are deleted from it.              *)

UnlinkCategoryIds == CategoryIds \cup {Null}

UnlinkDeleteCategory ==
    \E id \in CategoryIds :
        /\ state.categories # <<>>
        /\ Dispatch([type |-> DELETE_CATEGORY, id |-> id])

UnlinkDeleteMissingCategory ==
    /\ state.categories = <<>>
    /\ Dispatch([type |-> DELETE_CATEGORY, id |-> 1])

NextUnlink ==
    \/ UnlinkDeleteCategory
    \/ UnlinkDeleteMissingCategory

(* new Budget({categoryGroups: [new CategoryGroup({id: 1})],                *)
(*   categories: [new Category({id: 1, groupId: 1}), ...],                  *)
(*   transactions: [new Transaction({id: 1, detail: [{amount: 1,            *)
(*   categoryId: c1}, {amount: 2, categoryId: c2}]}), new Transaction({id:  *)
(*   2, detail: [{amount: 3, categoryId: c3}]})]})                          *)
InitUnlink ==
    \E categories \in SUBSET CategoryIds, c1, c2, c3 \in UnlinkCategoryIds :
        /\ {c1, c2, c3} \subseteq categories \cup {Null}
        /\ InitBudget(Budget(
              [categoryGroups |-> <<NewCategoryGroup(1)>>,
               categories |->
                  SelectSeq([i \in CategoryIds |->
                               [NewCategory(i) EXCEPT !.groupId = 1]],
                            LAMBDA c : c.id \in categories),
               transactions |->
                  <<[NewTransaction(1) EXCEPT !.detail =
                       <<[amount |-> 1, categoryId |-> c1],
                         [amount |-> 2, categoryId |-> c2]>>],
                    [NewTransaction(2) EXCEPT !.detail =
                       <<[amount |-> 3, categoryId |-> c3]>>]>>]))

SpecUnlink == InitUnlink /\ [][NextUnlink]_vars

----------------------------------------------------------------------------
(* The rules of a category and the period of the Budget: category 1 is     *)
(* given a list of rules once, and the start and the end of the Budget are  *)
(* moved before and after that.                                             *)

MaxRuleDate == 2

RuleDates == 0..MaxRuleDate

(* {startDate, endDate, period, repeatN} objects, as a command carries     *)
(* them: a rule that does not repeat, or one that repeats every second day. *)
RuleValues ==
    [startDate : RuleDates \cup {Null}, endDate : RuleDates \cup {Null},
     period : {Null}, repeatN : {1}]
    \cup
    [startDate : RuleDates \cup {Null}, endDate : RuleDates \cup {Null},
     period : {CategoryRulePeriod_Day}, repeatN : {2}]

(* Lists of at most two rules; the validation treats the two orders of a    *)
(* pair alike, so the rule that starts later, or as late, comes second (a   *)
(* null start counts as the earliest).                                      *)
RuleLists ==
    {<<>>} \cup {<<r>> : r \in RuleValues}
      \cup {p \in RuleValues \X RuleValues : p[1].startDate <= p[2].startDate}

(* One attempt at a time: after an attempt that was refused the period is  *)
(* moved before the next one.                                               *)
RulesUpdateCategory ==
    \E rules \in RuleLists :
        /\ Get(state.categories, 1).rules = NullRules
        /\ cmd.type # UPDATE_CATEGORY
        /\ Dispatch([type |-> UPDATE_CATEGORY, id |-> 1,
                     data |-> [rules |-> ListOf(rules)]])

RulesSetStartDate ==
    \E startDate \in RuleDates :
        /\ startDate # state.startDate
        /\ Dispatch([type |-> SET_DATE, startDate |-> startDate])

RulesSetEndDate ==
    \E endDate \in RuleDates :
        /\ endDate # state.endDate
        /\ Dispatch([type |-> SET_DATE, endDate |-> endDate])

NextRules ==
    \/ RulesUpdateCategory
    \/ RulesSetStartDate
    \/ RulesSetEndDate

(* new Budget({categoryGroups: [new CategoryGroup({id: 1})],                *)
(*             categories: [new Category({id: 1, groupId: 1})]})            *)
InitRules ==
    InitBudget(Budget([categoryGroups |-> <<NewCategoryGroup(1)>>,
                       categories |-> <<[NewCategory(1) EXCEPT !.groupId = 1]>>]))

SpecRules == InitRules /\ [][NextRules]_vars

----------------------------------------------------------------------------
(* Account balances: a Budget is built with two accounts and with           *)
(* transactions that are dated or not, pending or not, and linked to an     *)
(* account or not, one of them with no id; its balances are read, and read  *)
(* again after a command has made a new Budget of it.                       *)

BalanceAccounts ==
    <<[NewAccount(1) EXCEPT !.initialBalance = 100],
      [NewAccount(2) EXCEPT !.initialBalance = 200]>>

(* new Transaction({id, date, accountId, pending, detail: [{amount}]}) *)
BalanceTransaction(id, date, accountId, pending, amount) ==
    [NewTransaction(id) EXCEPT !.date = date, !.accountId = accountId,
                               !.pending = pending,
                               !.detail = <<[amount |-> amount, categoryId |-> Null]>>]

(* A read of the Budget: the object is the same one, with the tables it has *)
(* computed; the Budget it was made from is left as it is.                  *)
Read(query, threw, after) ==
    /\ prev' = prev
    /\ cmd' = query
    /\ thrown' = threw
    /\ state' = after

BalAccountBalances ==
    /\ cmd.type # "accountBalances"
    /\ Read([type |-> "accountBalances"], FALSE, withBalances(state))

BalAccountBalanceAsOfTransaction ==
    \E transactionId \in {1, 2, Null}, accountId \in {1, 2} :
        /\ Has(state.transactions, transactionId)
        /\ cmd.type # "accountBalanceAsOfTransaction"
        /\ Read([type |-> "accountBalanceAsOfTransaction",
                 transactionId |-> transactionId, accountId |-> accountId],
                accountBalanceAsOfTransaction(state, transactionId, accountId) = Throw,
                afterAccountBalanceAsOfTransaction(state, transactionId, accountId))

(* A transaction stops or starts being pending, after the balances were read *)
BalUpdateTransaction ==
    \E id \in {1, 2} :
        /\ state._accountBalances # Undefined
        /\ Dispatch([type |-> UPDATE_TRANSACTION, id |-> id,
                     data |-> [pending |-> ~Get(state.transactions, id).pending]])

BalDeleteAccount ==
    /\ state._accountBalances # Undefined
    /\ Has(state.accounts, 2)
    /\ Dispatch([type |-> DELETE_ACCOUNT, id |-> 2])

NextBal ==
    \/ BalAccountBalances
    \/ BalAccountBalanceAsOfTransaction
    \/ BalUpdateTransaction
    \/ BalDeleteAccount

InitBal ==
    \E date1, date2 \in Dates \cup {Null}, accountId1, accountId2 \in {1, 2, Null},
       pending1, pending2, unnumbered \in BOOLEAN :
        InitBudget(Budget(
            [accounts |-> BalanceAccounts,
             transactions |->
                <<BalanceTransaction(1, date1, accountId1, pending1, 1),
                  BalanceTransaction(2, date2, accountId2, pending2, 2)>>
                \o (IF unnumbered
                    THEN <<BalanceTransaction(Null, 0, 1, FALSE, 4)>>
                    ELSE <<>>)]))

SpecBal == InitBal /\ [][NextBal]_vars

----------------------------------------------------------------------------
(* Category balances and budgets: a Budget is built that starts on any     *)
(* date, with two categories, the first with or without rules, and two      *)
(* transactions, the first split over two details; a transaction is moved   *)
(* to a date, and the balances and the budgets are read on a date.          *)

(* Until day 0, and every day from day 1 on *)
BudgetRules ==
    <<CategoryRule([amount |-> 5, endDate |-> 0, period |-> CategoryRulePeriod_Day]),
      CategoryRule([amount |-> 7, startDate |-> 1, period |-> CategoryRulePeriod_Day])>>

BudgetRuleChoices ==
    {NullRules, ListOf(<<>>), ListOf(SubSeq(BudgetRules, 2, 2)), ListOf(BudgetRules)}

CatBalUpdateTransaction ==
    \E date \in Dates :
        /\ cmd.type = NOOP
        /\ Get(state.transactions, 1).date # date
        /\ Dispatch([type |-> UPDATE_TRANSACTION, id |-> 1, data |-> [date |-> date]])

CatBalCategoryBalancesOnDate ==
    \E date \in Dates :
        /\ cmd.type \in {NOOP, UPDATE_TRANSACTION}
        /\ Read([type |-> "categoryBalancesOnDate", date |-> date],
                categoryBalancesOnDate(state, date) = Throw, state)

CatBalCategoryBudgetsOnDate ==
    \E date \in Dates :
        /\ cmd.type \in {NOOP, UPDATE_TRANSACTION}
        /\ Read([type |-> "categoryBudgetsOnDate", date |-> date],
                categoryBudgetsOnDate(state, date) = Throw, state)

NextCatBal ==
    \/ CatBalUpdateTransaction
    \/ CatBalCategoryBalancesOnDate
    \/ CatBalCategoryBudgetsOnDate

InitCatBal ==
    \E startDate \in Dates, rules \in BudgetRuleChoices,
       date1, date2 \in Dates \cup {Null}, pending \in BOOLEAN,
       categoryId1, categoryId2 \in {1, 2, Null}, categoryId3 \in {1, Null} :
        LET b == Budget(
                   [startDate |-> startDate,
                    categoryGroups |-> <<NewCategoryGroup(1)>>,
                    categories |->
                       <<[NewCategory(1) EXCEPT !.groupId = 1, !.rules = rules],
                         [NewCategory(2) EXCEPT !.groupId = 1]>>,
                    transactions |->
                       <<[NewTransaction(1) EXCEPT
                            !.date = date1,
                            !.detail = <<[amount |-> 1, categoryId |-> categoryId1],
                                         [amount |-> 2, categoryId |-> categoryId2]>>],
                         [NewTransaction(2) EXCEPT
                            !.date = date2, !.pending = pending,
                            !.detail = <<[amount |-> 4,
                                          categoryId |-> categoryId3]>>]>>])
        IN b # Throw /\ InitBudget(b)

SpecCatBal == InitCatBal /\ [][NextCatBal]_vars

----------------------------------------------------------------------------
(* Counting the occurrences of a rule: a constructed CategoryRule, asked      *)
(* for its occurrences in a window.  The dates are the first days, the last   *)
(* days and days inside the first months of 2000, and the first day of 2001. *)

MaxRepeatN == 3

(* 2000-01-01, 01-02, 01-08, 01-15, 01-31, 02-01, 02-29, 03-01, 03-31,        *)
(* 04-01, 04-30 and 2001-01-01                                                *)
CountDates == {0, 1, 7, 14, 30, 31, 59, 60, 90, 91, 120, 366}

(* 2000-01-01, 2000-01-31, 2000-03-01 *)
CountAnchors == {Null, 0, 30, 60}

CountRuleValues ==
    [period : allowedRuleValues \cup {Null}, repeatN : 1..MaxRepeatN,
     startDate : CountAnchors, endDate : CountAnchors]

(* rule.countOccurrencesBetween(new PDate(dateBegin), new PDate(dateEnd)):    *)
(* the rule is left as it is; the call throws when assert(dateEnd >=          *)
(* dateBegin) fails, and only then.                                           *)
CountOccurrencesBetween ==
    \E dateBegin \in CountDates, dateEnd \in CountDates :
        /\ cmd.type = NOOP
        /\ dateBegin <= dateEnd
        /\ Read([type |-> "countOccurrencesBetween",
                 dateBegin |-> dateBegin, dateEnd |-> dateEnd],
                ~(dateEnd >= dateBegin), state)

(* A window that ends before it begins *)
CountOccurrencesBackwards ==
    \E dateBegin \in CountDates, dateEnd \in CountDates :
        /\ cmd.type = NOOP
        /\ dateBegin > dateEnd
        /\ Read([type |-> "countOccurrencesBetween",
                 dateBegin |-> dateBegin, dateEnd |-> dateEnd],
                ~(dateEnd >= dateBegin), state)

NextCount ==
    \/ CountOccurrencesBetween
    \/ CountOccurrencesBackwards

(* new CategoryRule(values) *)
InitCount ==
    \E values \in CountRuleValues :
        /\ CategoryRule_checkInvariants(CategoryRule(values))
        /\ InitBudget(CategoryRule(values))

SpecCount == InitCount /\ [][NextCount]_vars

----------------------------------------------------------------------------
(* Serialization: a Budget with two groups, a category in each, an account  *)
(* and two transactions; the groups, the categories and the transactions    *)
(* are moved, and the Budget is written with toJS and restored with fromJS. *)

JSUpdateCategoryGroup ==
    \E id \in 1..2, index \in 0..1 :
        /\ cmd.type # "fromJS"
        /\ Dispatch([type |-> UPDATE_CATEGORY_GROUP, id |-> id, index |-> index])

JSUpdateCategory ==
    \E id \in 1..2, groupId \in 1..2 :
        /\ cmd.type # "fromJS"
        /\ Dispatch([type |-> UPDATE_CATEGORY, id |-> id,
                     data |-> [groupId |-> groupId]])

JSUpdateTransaction ==
    \E id \in 1..2, date \in Dates \cup {Null} :
        /\ cmd.type # "fromJS"
        /\ Dispatch([type |-> UPDATE_TRANSACTION, id |-> id,
                     data |-> [date |-> date]])

(* Budget.fromJS(budget.toJS()): the Budget itself is left as it is *)
JSFromJS ==
    /\ cmd.type # "fromJS"
    /\ Read([type |-> "fromJS"], Budget_fromJS(Budget_toJS(state)) = Throw, state)

NextJS ==
    \/ JSUpdateCategoryGroup
    \/ JSUpdateCategory
    \/ JSUpdateTransaction
    \/ JSFromJS

InitJS ==
    \E name \in {"New Budget", "Household"}, currencyCode \in {"USD", "CAD"},
       date \in Dates \cup {Null} :
        InitBudget(Budget(
            [id |-> 15, name |-> name, currencyCode |-> currencyCode,
             accounts |-> <<[NewAccount(1) EXCEPT !.initialBalance = 100,
                                                  !.currencyCode = currencyCode]>>,
             categoryGroups |-> <<NewCategoryGroup(1), NewCategoryGroup(2)>>,
             categories |->
                <<[NewCategory(1) EXCEPT !.groupId = 1, !.currencyCode = currencyCode,
                                         !.rules = ListOf(<<CategoryRule(
                                                      [amount |-> 5, startDate |-> 0])>>)],
                  [NewCategory(2) EXCEPT !.groupId = 2,
                                         !.currencyCode = currencyCode]>>,
             transactions |->
                <<[NewTransaction(1) EXCEPT
                     !.date = date, !.accountId = 1,
                     !.detail = <<[amount |-> 1, categoryId |-> 1],
                                  [amount |-> 2, categoryId |-> Null]>>],
                  NewTransaction(2)>>]))

SpecJS == InitJS /\ [][NextJS]_vars

----------------------------------------------------------------------------
(* PRecord: the record of the repository's own test, with two fields and    *)
(* the invariant fieldA ^ fieldB; it is constructed, one field is set, and   *)
(* several fields are merged.                                               *)

MaxFieldValue == 2

FieldValues == 0..MaxFieldValue

(* a ^ b of JavaScript, for integers that are not negative *)
RECURSIVE BitXor(_, _)
BitXor(a, b) ==
    IF a = 0 /\ b = 0 THEN 0
    ELSE (((a % 2) + (b % 2)) % 2) + 2 * BitXor(a \div 2, b \div 2)

NewXorTestRecord == [fieldA |-> 0, fieldB |-> 1]

(* if (!(this.fieldA ^ this.fieldB)) throw *)
XorTestRecord_checkInvariants(r) == BitXor(r.fieldA, r.fieldB) # 0

(* new XorTestRecord(values) *)
XorTestRecord(values) ==
    IF XorTestRecord_checkInvariants(Merge(NewXorTestRecord, values))
    THEN Merge(NewXorTestRecord, values) ELSE Throw

(* A merge that sets the fields one after another, fieldA first, with the   *)
(* invariants checked after each                                            *)
PRecord_mergeFieldByField(r, data) ==
    LET first == IF "fieldA" \in DOMAIN data
                 THEN [r EXCEPT !.fieldA = data.fieldA] ELSE r
        second == IF "fieldB" \in DOMAIN data
                  THEN [first EXCEPT !.fieldB = data.fieldB] ELSE first
    IN IF XorTestRecord_checkInvariants(first)
          /\ XorTestRecord_checkInvariants(second)
       THEN second ELSE Throw

(* PRecord.set(k, v): the new record is made, and _checkInvariants runs on  *)
(* it because _skipChecks is not set; r itself is not touched.              *)
PRecord_set(r, k, v) ==
    IF XorTestRecord_checkInvariants([r EXCEPT ![k] = v])
    THEN [r EXCEPT ![k] = v] ELSE Throw

(* PRecord.merge(data), which Immutable runs as withMutations: every key of *)
(* data is set on a mutable copy with _skipChecks set, and _checkInvariants  *)
(* runs once on the copy after the last of them.                            *)
PRecord_merge(r, data) ==
    IF XorTestRecord_checkInvariants(Merge(r, data)) THEN Merge(r, data) ELSE Throw

(* The holder of the record keeps the record it had when the call threw *)
Assigned(call, result) ==
    /\ prev' = state
    /\ cmd' = call
    /\ thrown' = (result = Throw)
    /\ state' = IF result = Throw THEN state ELSE result

RecSet ==
    \E k \in {"fieldA", "fieldB"}, v \in FieldValues :
        /\ cmd.type # "set"
        /\ Assigned([type |-> "set", k |-> k, v |-> v], PRecord_set(state, k, v))

RecMerge ==
    \E data \in [{"fieldA", "fieldB"} -> FieldValues]
                   \cup [{"fieldA"} -> FieldValues] \cup [{"fieldB"} -> FieldValues] :
        /\ DOMAIN data # {}
        /\ Assigned([type |-> "merge", data |-> data], PRecord_merge(state, data))

NextRec ==
    \/ RecSet
    \/ RecMerge

InitRec ==
    \E values \in [{"fieldA", "fieldB"} -> FieldValues] \cup [{"fieldA"} -> FieldValues] :
        /\ XorTestRecord(values) # Throw
        /\ InitBudget(XorTestRecord(values))

SpecRec == InitRec /\ [][NextRec]_vars

----------------------------------------------------------------------------
(* Rules: a CategoryRule is constructed, one of its fields is set, and      *)
(* fields are merged, with repeatN from -1 upwards and a period that is     *)
(* null, one of the four periods, or 1, which is none of them.              *)

RuleFieldValues ==
    [repeatN : -1..MaxRepeatN, period : allowedRuleValues \cup {Null, 1}]
    \cup [repeatN : -1..MaxRepeatN] \cup [period : allowedRuleValues \cup {Null, 1}]

(* new CategoryRule(values) *)
RuleConstruct ==
    \E values \in RuleFieldValues :
        /\ cmd.type # "new"
        /\ Assigned([type |-> "new", values |-> values],
                    IF CategoryRule_checkInvariants(CategoryRule(values))
                    THEN CategoryRule(values) ELSE Throw)

(* rule.set(k, v) *)
RuleSet ==
    \E values \in RuleFieldValues :
        /\ Cardinality(DOMAIN values) = 1
        /\ Assigned([type |-> "set", values |-> values],
                    IF CategoryRule_checkInvariants(Merge(state, values))
                    THEN Merge(state, values) ELSE Throw)

(* rule.merge(values) *)
RuleMerge ==
    \E values \in RuleFieldValues :
        /\ cmd.type # "merge"
        /\ Assigned([type |-> "merge", values |-> values],
                    IF CategoryRule_checkInvariants(Merge(state, values))
                    THEN Merge(state, values) ELSE Throw)

NextRule ==
    \/ RuleConstruct
    \/ RuleSet
    \/ RuleMerge

(* new CategoryRule() *)
InitRule == InitBudget(NewCategoryRule)

SpecRule == InitRule /\ [][NextRule]_vars

----------------------------------------------------------------------------
(* Relinking: an account or a category is inserted with a list of the       *)
(* transactions, or of the detail rows, to link to it.  Two transactions,   *)
(* each linked to account 1 or to none, with detail rows in category 1 or   *)
(* in none; the lists name them, a detail index past the end, and a         *)
(* transaction that does not exist.                                         *)

MaxLinks == 2

RelinkIds == {1, 2}
RelinkTxnIds == {1, 2, 3}
RelinkDetailRows == {<<1, 0>>, <<1, 1>>, <<2, 0>>, <<2, 1>>, <<3, 0>>}

(* The entries of a list *)
Listed(list) == {list[i] : i \in DOMAIN list}

(* UPDATE_ACCOUNT with data and linkNullTransactions *)
RelinkUpdateAccount ==
    \E id \in RelinkIds, currencyCode \in LinkCurrencies,
       list \in SeqsUpTo(RelinkTxnIds, MaxLinks) :
        /\ Len(list) <= MaxLinks
        /\ Dispatch([type |-> UPDATE_ACCOUNT, id |-> id,
                     data |-> [currencyCode |-> currencyCode],
                     linkNullTransactions |-> list])

RelinkDeleteAccount ==
    /\ Has(state.accounts, 2)
    /\ Dispatch([type |-> DELETE_ACCOUNT, id |-> 2])

NextRelinkAccount ==
    \/ RelinkUpdateAccount
    \/ RelinkDeleteAccount

(* UPDATE_CATEGORY with data and linkTransactionDetails *)
RelinkUpdateCategory ==
    \E id \in RelinkIds, list \in SeqsUpTo(RelinkDetailRows, MaxLinks) :
        /\ Len(list) <= MaxLinks
        /\ Dispatch([type |-> UPDATE_CATEGORY, id |-> id,
                     data |-> [groupId |-> 1],
                     linkTransactionDetails |-> list])

RelinkDeleteCategory ==
    /\ Has(state.categories, 2)
    /\ Dispatch([type |-> DELETE_CATEGORY, id |-> 2])

NextRelinkCategory ==
    \/ RelinkUpdateCategory
    \/ RelinkDeleteCategory

(* new Budget({accounts: [new Account({id: 1})],                            *)
(*   categoryGroups: [new CategoryGroup({id: 1})],                          *)
(*   categories: [new Category({id: 1, groupId: 1})],                       *)
(*   transactions: [                                                        *)
(*     new Transaction({id: 1, accountId: a1,                               *)
(*                      detail: [{categoryId: c1}, {categoryId: null}]}),   *)
(*     new Transaction({id: 2, accountId: a2, detail: [{categoryId: c2}]})  *)
(*   ]})                                                                    *)
RelinkBudget(a1, a2, c1, c2) ==
    Budget([accounts |-> <<NewAccount(1)>>,
            categoryGroups |-> <<NewCategoryGroup(1)>>,
            categories |-> <<[NewCategory(1) EXCEPT !.groupId = 1]>>,
            transactions |-> <<
                [NewTransaction(1) EXCEPT !.accountId = a1,
                    !.detail = <<[amount |-> 0, categoryId |-> c1],
                                 [amount |-> 0, categoryId |-> Null]>>],
                [NewTransaction(2) EXCEPT !.accountId = a2,
                    !.detail = <<[amount |-> 0, categoryId |-> c2]>>]>>])

InitRelinkAccount ==
    \E a1 \in {Null, 1}, a2 \in {Null, 1}, c1 \in {Null, 1} :
        InitBudget(RelinkBudget(a1, a2, c1, Null))

InitRelinkCategory ==
    \E c1 \in {Null, 1}, c2 \in {Null, 1} :
        InitBudget(RelinkBudget(1, Null, c1, c2))

SpecRelinkAccount == InitRelinkAccount /\ [][NextRelinkAccount]_vars

SpecRelinkCategory == InitRelinkCategory /\ [][NextRelinkCategory]_vars

----------------------------------------------------------------------------
(* Placing categories: with two groups, categories are created in a group,  *)
(* moved to the other group, updated where they are and deleted, and the    *)
(* groups change places.                                                    *)

MaxPlaceId == 3

PlaceCategoryIds == 1..MaxPlaceId
PlaceGroupIds == {1, 2}

PlaceUpdateCategory ==
    \E id \in PlaceCategoryIds, groupId \in PlaceGroupIds :
        /\ id <= MaxPlaceId
        /\ Dispatch([type |-> UPDATE_CATEGORY, id |-> id,
                     data |-> [groupId |-> groupId]])

PlaceDeleteCategory ==
    \E id \in PlaceCategoryIds :
        /\ Has(state.categories, id)
        /\ Dispatch([type |-> DELETE_CATEGORY, id |-> id])

PlacePositionCategoryGroup ==
    \E id \in PlaceGroupIds :
        /\ keyOf(state.categoryGroups, id) # 0
        /\ Dispatch([type |-> UPDATE_CATEGORY_GROUP, id |-> id, index |-> 0])

NextPlace ==
    \/ PlaceUpdateCategory
    \/ PlaceDeleteCategory
    \/ PlacePositionCategoryGroup

(* new Budget({categoryGroups: [new CategoryGroup({id: 1}),                 *)
(*                              new CategoryGroup({id: 2})]})               *)
InitPlace ==
    InitBudget(Budget([categoryGroups |->
                          <<NewCategoryGroup(1), NewCategoryGroup(2)>>]))

SpecPlace == InitPlace /\ [][NextPlace]_vars

----------------------------------------------------------------------------
(* Positions: two accounts, two groups and two categories of one group are  *)
(* moved to an index that is inside the list, negative, or past its end.    *)

MaxNewIndex == 3

NewIndexes == (-2)..MaxNewIndex
PositionIds == {1, 2}

PosUpdateAccount ==
    \E id \in PositionIds, index \in NewIndexes :
        /\ index <= MaxNewIndex
        /\ Dispatch([type |-> UPDATE_ACCOUNT, id |-> id, index |-> index])

PosUpdateCategoryGroup ==
    \E id \in PositionIds, index \in NewIndexes :
        /\ index <= MaxNewIndex
        /\ Dispatch([type |-> UPDATE_CATEGORY_GROUP, id |-> id, index |-> index])

PosUpdateCategory ==
    \E id \in PositionIds, index \in NewIndexes :
        /\ index <= MaxNewIndex
        /\ Dispatch([type |-> UPDATE_CATEGORY, id |-> id, index |-> index])

NextPos ==
    \/ PosUpdateAccount
    \/ PosUpdateCategoryGroup
    \/ PosUpdateCategory

(* new Budget({accounts: [new Account({id: 1}), new Account({id: 2})],      *)
(*   categoryGroups: [new CategoryGroup({id: 1}), new CategoryGroup({id: 2})],*)
(*   categories: [new Category({id: 1, groupId: 1}),                        *)
(*                new Category({id: 2, groupId: 1})]})                      *)
InitPos ==
    InitBudget(Budget([
        accounts |-> <<NewAccount(1), NewAccount(2)>>,
        categoryGroups |-> <<NewCategoryGroup(1), NewCategoryGroup(2)>>,
        categories |-> <<[NewCategory(1) EXCEPT !.groupId = 1],
                         [NewCategory(2) EXCEPT !.groupId = 1]>>]))

SpecPos == InitPos /\ [][NextPos]_vars

----------------
(* Properties of the reducer, the inverter and the Budget, stated over the  *)
(* last dispatch: the Budget it was applied to (prev), the command (cmd),   *)
(* whether it threw (thrown) and the Budget it left (state).                *)

(* C1: the undo law.  For every recognized command C and every reachable    *)
(* Budget S, if reducer(S, C) succeeds then                                 *)
(* reducer(reducer(S, C), inverter(S, C)) equals S, the order of accounts,  *)
(* category groups, categories and transactions included.                   *)
C1_UndoLaw ==
    (~thrown /\ Applies(prev, cmd)) =>
        LET inverse == inverter(prev, cmd) IN
        /\ inverse # Throw
        /\ inverse # InvNull
        /\ reducer(state, inverse) = prev

(* The place of a category's group in categoryGroups *)
GroupIndex(s, category) ==
    CHOOSE g \in DOMAIN s.categoryGroups : s.categoryGroups[g].id = category.groupId

(* C2: in every reachable Budget categories iterate grouped by category     *)
(* group, in the current order of categoryGroups: whenever category x       *)
(* precedes category y, the index of x's group in categoryGroups is less    *)
(* than or equal to the index of y's group.                                 *)
C2_CategoriesGroupedInGroupOrder ==
    \A x, y \in DOMAIN state.categories :
        x < y => GroupIndex(state, state.categories[x])
                    <= GroupIndex(state, state.categories[y])

(* Non-decreasing date order, with every undated transaction after every    *)
(* dated one                                                                *)
InDateOrder(transactions) ==
    \A i, j \in DOMAIN transactions :
        i < j =>
            /\ transactions[i].date = Null => transactions[j].date = Null
            /\ (transactions[i].date # Null /\ transactions[j].date # Null) =>
                  transactions[i].date <= transactions[j].date

(* C3: in every Budget reachable through the constructor, updateTransaction,*)
(* deleteTransaction, deleteAccount, deleteCategory or any reducer command, *)
(* transactions iterate in non-decreasing date order and every transaction  *)
(* without a date comes after every dated transaction.                      *)
C3_TransactionsInDateOrder == InDateOrder(state.transactions)

(* A command gave a transaction a date that moved it in front of another.   *)
C3_Witness ==
    /\ cmd.type = UPDATE_TRANSACTION
    /\ ~thrown
    /\ "date" \in DOMAIN cmd.data
    /\ Len(prev.transactions) = 2
    /\ Len(state.transactions) = 2
    /\ prev.transactions[2].id = cmd.id
    /\ state.transactions[1].id = cmd.id
    /\ state.transactions[1].date # state.transactions[2].date

(* C4: UPDATE_MULTIPLE_TRANSACTIONS satisfies the undo law: for every list  *)
(* of UPDATE_TRANSACTION and DELETE_TRANSACTION sub-actions, inverter(S, C) *)
(* is a command that the reducer applies to reducer(S, C) without error,    *)
(* and the result equals S.                                                 *)
C4_CompoundUndoLaw ==
    (/\ cmd.type = UPDATE_MULTIPLE_TRANSACTIONS
     /\ ~thrown
     /\ \A i \in DOMAIN cmd.subActions :
           /\ cmd.subActions[i].type \in {UPDATE_TRANSACTION, DELETE_TRANSACTION}
           /\ "budgetId" \notin DOMAIN cmd.subActions[i])
    => LET inverse == inverter(prev, cmd) IN
       /\ inverse # Throw
       /\ reducer(state, inverse) = prev

(* C5: when a DELETE_ACCOUNT, DELETE_CATEGORY, DELETE_CATEGORY_GROUP or     *)
(* DELETE_TRANSACTION command names an id that is not in the state,         *)
(* inverter(state, command) returns a command of type NOOP, which the       *)
(* reducer applies with no effect.                                          *)
C5_DeleteOfMissingInvertsToNoop ==
    (cmd.type \in DeleteTypes /\ ~Has(DeleteTarget(prev, cmd.type), cmd.id)) =>
        LET inverse == inverter(prev, cmd) IN
        /\ inverse # Throw
        /\ inverse # InvNull
        /\ inverse.type = NOOP
        /\ reducer(state, inverse) = state

C7_IgnoredCommandLeavesState ==
    (\/ ~startsWith(cmd.type, PROPHECY_ACTION_PREFIX)
     \/ ("budgetId" \in DOMAIN cmd /\ cmd.budgetId # prev.id)
     \/ cmd.type \notin RecognizedTypes)
    => (state = prev /\ ~thrown)

(* A SET_NAME with a new name, addressed to another Budget, was dispatched  *)
(* to Budget 15 and ignored.                                                *)
C7_Witness ==
    /\ cmd.type = SET_NAME
    /\ "budgetId" \in DOMAIN cmd
    /\ cmd.budgetId = Null
    /\ prev.id = 15
    /\ prev.name # cmd.name
    /\ state = prev
    /\ ~thrown

(* The sub-actions dispatched one after another; a throw ends the sequence. *)
RECURSIVE OneAfterAnother(_, _, _)
OneAfterAnother(s, subActions, i) ==
    IF s = Throw \/ i > Len(subActions) THEN s
    ELSE OneAfterAnother(reducer(s, subActions[i]), subActions, i + 1)

(* The compound command did what dispatching its sub-actions in turn does:  *)
(* the same final state, or a throw.                                        *)
SameAsOneAfterAnother ==
    LET sequential == OneAfterAnother(prev, cmd.subActions, 1) IN
    IF thrown THEN sequential = Throw ELSE sequential = state

C9_AccountIdIsNullOrExists ==
    /\ \A i \in DOMAIN state.transactions :
          \/ state.transactions[i].accountId = Null
          \/ \E j \in DOMAIN state.accounts :
                state.accounts[j].id = state.transactions[i].accountId
    /\ (/\ cmd.type = UPDATE_TRANSACTION
        /\ "accountId" \in DOMAIN cmd.data
        /\ cmd.data.accountId # Null
        /\ \A j \in DOMAIN prev.accounts : prev.accounts[j].id # cmd.data.accountId)
       => (thrown /\ state = prev)

(* A transaction was pointed at an account that had been deleted, and the   *)
(* command threw.                                                           *)
C9_Witness ==
    /\ cmd.type = UPDATE_TRANSACTION
    /\ cmd.data.accountId # Null
    /\ \A j \in DOMAIN prev.accounts : prev.accounts[j].id # cmd.data.accountId
    /\ Len(prev.accounts) = 1
    /\ \E i \in DOMAIN prev.transactions : prev.transactions[i].accountId # Null
    /\ thrown

(* Some transaction of Budget s references the account and some category *)
AccountLinkedToCategory(s, accountId) ==
    \E i \in DOMAIN s.transactions :
        /\ s.transactions[i].accountId = accountId
        /\ \E j \in DOMAIN s.transactions[i].detail :
              s.transactions[i].detail[j].categoryId # Null

(* Some transaction of Budget s references the category and some account *)
CategoryLinkedToAccount(s, categoryId) ==
    \E i \in DOMAIN s.transactions :
        /\ s.transactions[i].accountId # Null
        /\ \E j \in DOMAIN s.transactions[i].detail :
              s.transactions[i].detail[j].categoryId = categoryId

(* The command gives record cmd.id of the collection a currency it did not  *)
(* have                                                                     *)
ChangesCurrency(collection) ==
    /\ "data" \in DOMAIN cmd
    /\ "currencyCode" \in DOMAIN cmd.data
    /\ \E i \in DOMAIN collection :
          /\ collection[i].id = cmd.id
          /\ collection[i].currencyCode # cmd.data.currencyCode

(* C10: in every reachable Budget every transaction detail's categoryId is  *)
(* null or the id of an existing category and, when the transaction also    *)
(* has an account, the category's currencyCode equals the account's; a      *)
(* change of an account's or a category's currency while they are linked    *)
(* through a transaction is rejected.                                       *)
C10_CategoryIdExistsInAccountCurrency ==
    /\ \A i \in DOMAIN state.transactions :
          \A j \in DOMAIN state.transactions[i].detail :
              LET categoryId == state.transactions[i].detail[j].categoryId
                  accountId == state.transactions[i].accountId
              IN categoryId # Null =>
                    \E c \in DOMAIN state.categories :
                        /\ state.categories[c].id = categoryId
                        /\ accountId # Null =>
                              \E a \in DOMAIN state.accounts :
                                  /\ state.accounts[a].id = accountId
                                  /\ state.accounts[a].currencyCode
                                        = state.categories[c].currencyCode
    /\ (cmd.type = UPDATE_ACCOUNT /\ ChangesCurrency(prev.accounts)
            /\ AccountLinkedToCategory(prev, cmd.id))
       => (thrown /\ state = prev)
    /\ (cmd.type = UPDATE_CATEGORY /\ ChangesCurrency(prev.categories)
            /\ CategoryLinkedToAccount(prev, cmd.id))
       => (thrown /\ state = prev)

(* The currency of a category was changed while a transaction linked it to  *)
(* an account, and the command threw.                                       *)
C10_Witness ==
    /\ cmd.type = UPDATE_CATEGORY
    /\ ChangesCurrency(prev.categories)
    /\ CategoryLinkedToAccount(prev, cmd.id)
    /\ thrown

----------------------------------------------------------------------------
(* C11: in every reachable Budget, the groupId of every category is the id *)
(* of a group that is present in categoryGroups.                            *)
C11_GroupIdExists ==
    \A i \in DOMAIN state.categories :
        /\ state.categories[i].groupId # Null
        /\ Has(state.categoryGroups, state.categories[i].groupId)

(* A category is held while a command that would leave a category without  *)
(* its group was refused: an assignment to a group that is not there, or    *)
(* the deletion of the group the category belongs to.                       *)
C11_Witness ==
    /\ state.categories # <<>>
    /\ thrown
    /\ \/ /\ cmd.type = UPDATE_CATEGORY
          /\ ~Has(prev.categoryGroups, cmd.data.groupId)
       \/ /\ cmd.type = DELETE_CATEGORY_GROUP
          /\ Get(prev.categories, 1).groupId = cmd.id

----------------------------------------------------------------------------
(* C14: deleteCategoryGroup(g) throws, and gives no new Budget, when some  *)
(* category has groupId g; when no category belongs to g the new Budget is  *)
(* the old one without group g, the other groups in the order they had.     *)
C14_DeleteCategoryGroup ==
    cmd.type = DELETE_CATEGORY_GROUP =>
        IF \E i \in DOMAIN prev.categories : prev.categories[i].groupId = cmd.id
        THEN thrown /\ state = prev
        ELSE /\ ~thrown
             /\ state = [prev EXCEPT !.categoryGroups =
                             SelectSeq(@, LAMBDA g : g.id # cmd.id)]

(* The deletion of a group that holds a category was refused while other   *)
(* groups were present.                                                     *)
C14_Witness ==
    /\ cmd.type = DELETE_CATEGORY_GROUP
    /\ thrown
    /\ Len(state.categoryGroups) >= 2
    /\ \E i \in DOMAIN prev.categories : prev.categories[i].groupId = cmd.id

----------------------------------------------------------------------------
(* C12: after deleteAccount(a) account a is absent and the other accounts  *)
(* are as they were, no transaction has accountId a, every transaction that *)
(* referenced a has accountId null, and the transactions are otherwise the  *)
(* same, in the same order.                                                 *)
C12_DeleteAccountUnlinks ==
    cmd.type = DELETE_ACCOUNT =>
        /\ ~thrown
        /\ ~Has(state.accounts, cmd.id)
        /\ state.accounts = SelectSeq(prev.accounts, LAMBDA a : a.id # cmd.id)
        /\ \A i \in DOMAIN state.transactions :
               state.transactions[i].accountId # cmd.id
        /\ Len(state.transactions) = Len(prev.transactions)
        /\ \A i \in DOMAIN prev.transactions :
               state.transactions[i] =
                  IF prev.transactions[i].accountId = cmd.id
                  THEN [prev.transactions[i] EXCEPT !.accountId = Null]
                  ELSE prev.transactions[i]
        /\ state = [prev EXCEPT !.accounts = state.accounts,
                                !.transactions = state.transactions]

(* An account was deleted that a transaction referenced, while another     *)
(* transaction referenced another account.                                  *)
C12_Witness ==
    /\ cmd.type = DELETE_ACCOUNT
    /\ \E i, j \in DOMAIN prev.transactions :
          /\ prev.transactions[i].accountId = cmd.id
          /\ state.transactions[i].accountId = Null
          /\ prev.transactions[j].accountId \notin {cmd.id, Null}
          /\ state.transactions[j] = prev.transactions[j]

----------------------------------------------------------------------------
(* C13: after deleteCategory(c) category c is absent and the other         *)
(* categories are as they were, no transaction detail has categoryId c,     *)
(* every detail that referenced c has categoryId null, and the details and  *)
(* the transactions are otherwise the same, in the same order.              *)
C13_DeleteCategoryUnlinks ==
    cmd.type = DELETE_CATEGORY =>
        /\ ~thrown
        /\ ~Has(state.categories, cmd.id)
        /\ state.categories = SelectSeq(prev.categories, LAMBDA c : c.id # cmd.id)
        /\ Len(state.transactions) = Len(prev.transactions)
        /\ \A i \in DOMAIN prev.transactions :
              LET old == prev.transactions[i]
                  new == state.transactions[i]
              IN /\ Len(new.detail) = Len(old.detail)
                 /\ \A j \in DOMAIN old.detail :
                       /\ new.detail[j].categoryId # cmd.id
                       /\ new.detail[j] =
                             IF old.detail[j].categoryId = cmd.id
                             THEN [old.detail[j] EXCEPT !.categoryId = Null]
                             ELSE old.detail[j]
                 /\ new = [old EXCEPT !.detail = new.detail]
        /\ state = [prev EXCEPT !.categories = state.categories,
                                !.transactions = state.transactions]

(* A category was deleted that one detail of a split transaction           *)
(* referenced, while the other detail referenced another category.          *)
C13_Witness ==
    /\ cmd.type = DELETE_CATEGORY
    /\ \E i \in DOMAIN prev.transactions :
          \E j, k \in DOMAIN prev.transactions[i].detail :
             /\ prev.transactions[i].detail[j].categoryId = cmd.id
             /\ state.transactions[i].detail[j].categoryId = Null
             /\ prev.transactions[i].detail[k].categoryId \notin {cmd.id, Null}
             /\ state.transactions[i].detail[k] = prev.transactions[i].detail[k]

----------------------------------------------------------------------------
(* C15: in every reachable Budget, for every category with rules and every *)
(* ordered pair of distinct rules (r, r2), the number of occurrences of r   *)
(* between r2.startDate, or the start of the Budget when r2 has none, and   *)
(* r2.endDate, or the end of the Budget, is 0; a SET_DATE that changes the  *)
(* period of the Budget keeps it so.                                        *)
C15_RulesDoNotOverlap ==
    \A c \in DOMAIN state.categories :
        LET rules == state.categories[c].rules IN
        rules # NullRules =>
           \A i, j \in DOMAIN rules.list :
              i # j =>
                 LET r == rules.list[i]
                     r2 == rules.list[j]
                     dateBegin == IF r2.startDate # Null THEN r2.startDate
                                  ELSE state.startDate
                     dateEnd == IF r2.endDate # Null THEN r2.endDate
                                ELSE state.endDate
                 IN /\ dateBegin <= dateEnd
                    /\ countOccurrencesBetween(r, dateBegin, dateEnd) = 0

(* The period of a Budget whose category has two rules, one of them open at *)
(* one end, was changed by SET_DATE.                                        *)
C15_Witness ==
    /\ cmd.type = SET_DATE
    /\ ~thrown
    /\ <<state.startDate, state.endDate>> # <<prev.startDate, prev.endDate>>
    /\ \E c \in DOMAIN state.categories :
          LET rules == state.categories[c].rules IN
          /\ rules # NullRules
          /\ Len(rules.list) = 2
          /\ \E i \in DOMAIN rules.list :
                rules.list[i].startDate = Null \/ rules.list[i].endDate = Null

----------------------------------------------------------------------------
(* The sum of the amounts of the transactions of a list *)
RECURSIVE SumOfTransactions(_)
SumOfTransactions(transactions) ==
    IF transactions = <<>> THEN 0
    ELSE Transaction_amount(Head(transactions))
           + SumOfTransactions(Tail(transactions))

(* C16: the balance of every account is its initialBalance plus the        *)
(* amounts of the transactions that are not pending and whose accountId is  *)
(* that account; the table has an entry for every account and no other, so  *)
(* pending transactions and transactions with no account count nowhere.     *)
C16_AccountBalances ==
    /\ DOMAIN accountBalances(state) =
           {state.accounts[i].id : i \in DOMAIN state.accounts}
    /\ \A i \in DOMAIN state.accounts :
          LET a == state.accounts[i] IN
          accountBalances(state)[a.id] =
             a.initialBalance
               + SumOfTransactions(
                    SelectSeq(state.transactions,
                              LAMBDA t : ~t.pending /\ t.accountId = a.id))

(* The balances were read of a Budget in which an account has a            *)
(* transaction that counts and a pending one, and a transaction that is not *)
(* pending has no account.                                                  *)
C16_Witness ==
    /\ cmd.type = "accountBalances"
    /\ state._accountBalances # Undefined
    /\ \E i, j, k \in DOMAIN state.transactions :
          /\ state.transactions[i].accountId # Null
          /\ ~state.transactions[i].pending
          /\ state.transactions[j].accountId = state.transactions[i].accountId
          /\ state.transactions[j].pending
          /\ state.transactions[k].accountId = Null
          /\ ~state.transactions[k].pending

----------------------------------------------------------------------------
(* C17: for a transaction t that is dated and not pending and an account   *)
(* a of the Budget, accountBalanceAsOfTransaction(t, a) is the              *)
(* initialBalance of a plus the amounts of the dated transactions on a that *)
(* are not pending and stand at or before t in the order of the             *)
(* transactions; for a pending or an undated t it is undefined.             *)
C17_AccountBalanceAsOfTransaction ==
    \A k \in DOMAIN state.transactions, i \in DOMAIN state.accounts :
        LET t == state.transactions[k]
            a == state.accounts[i]
            result == accountBalanceAsOfTransaction(state, t.id, a.id)
        IN IF t.date = Null \/ t.pending THEN result = Undefined
           ELSE result =
                  Defined(a.initialBalance
                            + SumOfTransactions(
                                 SelectSeq(SubSeq(state.transactions, 1, k),
                                    LAMBDA u : /\ u.date # Null
                                               /\ ~u.pending
                                               /\ u.accountId = a.id)))

(* The same, in a Budget whose transactions all have an id *)
C17_WhenEveryTransactionHasAnId ==
    (\A k \in DOMAIN state.transactions : state.transactions[k].id # Null)
       => C17_AccountBalanceAsOfTransaction

----------------------------------------------------------------------------
(* The two tables computed from the accounts and the transactions of b *)
OwnTables(b) ==
    LET computed == computeBalances(makeRecord(b))
    IN [accountBalances |-> computed._accountBalances,
        transactionAccountBalances |-> computed._transactionAccountBalances]

(* C18: accountBalances and accountBalanceAsOfTransaction, read on the     *)
(* Budget a command has produced, give what the accounts and transactions   *)
(* of that Budget give, whether or not the Budget it was made from had      *)
(* computed its tables; and the tables of that earlier Budget are still the *)
(* ones its own accounts and transactions give.                             *)
C18_BalancesAreTheBudgetsOwn ==
    /\ Defined(accountBalances(state)) = OwnTables(state).accountBalances
    /\ \A k \in DOMAIN state.transactions, i \in DOMAIN state.accounts :
          accountBalanceAsOfTransaction(state, state.transactions[k].id,
                                        state.accounts[i].id)
            = accountBalanceAsOfTransaction(makeRecord(state),
                 state.transactions[k].id, state.accounts[i].id)
    /\ prev._accountBalances # Undefined =>
          /\ prev._accountBalances = OwnTables(prev).accountBalances
          /\ prev._transactionAccountBalances
                = OwnTables(prev).transactionAccountBalances

(* The balances were read of a Budget made by a command from a Budget that *)
(* had computed its own, and the two tables of balances differ.             *)
C18_Witness ==
    /\ cmd.type \in {"accountBalances", "accountBalanceAsOfTransaction"}
    /\ prev._accountBalances # Undefined
    /\ state._accountBalances # Undefined
    /\ state._accountBalances # prev._accountBalances
    /\ state.transactions # prev.transactions

----------------------------------------------------------------------------
(* The details of the transactions of a list, one after another *)
RECURSIVE DetailsOf(_)
DetailsOf(transactions) ==
    IF transactions = <<>> THEN <<>>
    ELSE Head(transactions).detail \o DetailsOf(Tail(transactions))

(* The details of all the transactions of b that are dated, on or before   *)
(* the date, wherever they stand in the order                               *)
DetailsUpTo(b, date) ==
    DetailsOf(SelectSeq(b.transactions,
                        LAMBDA t : t.date # Null /\ t.date <= date))

(* C19: on a date within the period of the Budget, categoryBalancesOnDate  *)
(* has an entry for each category that a detail of a transaction dated on   *)
(* or before the date carries, pending or not and dated before the start of *)
(* the Budget or not, and the entry is the sum of the amounts of those      *)
(* details: the loop that stops early leaves no such transaction out.       *)
C19_CategoryBalancesOnDate ==
    \A date \in Dates :
        (state.startDate <= date /\ date <= state.endDate) =>
           LET details == DetailsUpTo(state, date)
               carried == {details[j].categoryId : j \in DOMAIN details} \ {Null}
           IN categoryBalancesOnDate(state, date) =
                 MapOf([c \in carried |->
                          SumAmounts(SelectSeq(details,
                                               LAMBDA d : d.categoryId = c), 1)])

(* The balances were read on a date of a Budget with a pending transaction *)
(* dated before the start of the Budget that carries a category, placed     *)
(* there by a command, and another transaction that is undated or later.    *)
C19_Witness ==
    /\ cmd.type = "categoryBalancesOnDate"
    /\ ~thrown
    /\ state.transactions # prev.transactions
    /\ \E k, l \in DOMAIN state.transactions :
          /\ state.transactions[k].pending
          /\ state.transactions[k].date # Null
          /\ state.transactions[k].date < state.startDate
          /\ \E j \in DOMAIN state.transactions[k].detail :
                state.transactions[k].detail[j].categoryId # Null
          /\ \/ state.transactions[l].date = Null
             \/ state.transactions[l].date > cmd.date

----------------------------------------------------------------------------
(* The sum over the rules of a list of amount times the occurrences of the *)
(* rule between two dates                                                   *)
RECURSIVE SumOverRules(_, _, _)
SumOverRules(rules, dateBegin, dateEnd) ==
    IF rules = <<>> THEN 0
    ELSE Head(rules).amount
            * countOccurrencesBetween(Head(rules), dateBegin, dateEnd)
           + SumOverRules(Tail(rules), dateBegin, dateEnd)

(* C20: on a date within the period of the Budget, categoryBudgetsOnDate   *)
(* has an entry for every category with an id and no other; for a category  *)
(* whose rules are null it is the entry of categoryBalancesOnDate, or 0     *)
(* when there is none, and otherwise the sum over the rules of amount times *)
(* the occurrences between the start of the Budget and the date, which is 0 *)
(* for an empty list.                                                       *)
C20_CategoryBudgetsOnDate ==
    \A date \in Dates :
        (state.startDate <= date /\ date <= state.endDate) =>
           LET budgets == categoryBudgetsOnDate(state, date)
               balances == categoryBalancesOnDate(state, date)
           IN /\ DOMAIN budgets.map =
                    {state.categories[i].id : i \in DOMAIN state.categories} \ {Null}
              /\ \A i \in DOMAIN state.categories :
                    LET category == state.categories[i] IN
                    category.id # Null =>
                       budgets.map[category.id] =
                          IF category.rules = NullRules
                          THEN IF category.id \in DOMAIN balances.map
                               THEN balances.map[category.id] ELSE 0
                          ELSE IF category.rules.list = <<>> THEN 0
                          ELSE SumOverRules(category.rules.list,
                                            state.startDate, date)

(* The budgets were read on a date before the end of a Budget that has a   *)
(* category with two rules and a category without rules that a detail of a  *)
(* transaction dated on or before that date carries.                        *)
C20_Witness ==
    /\ cmd.type = "categoryBudgetsOnDate"
    /\ ~thrown
    /\ cmd.date < state.endDate
    /\ \E i, j \in DOMAIN state.categories :
          /\ state.categories[i].rules # NullRules
          /\ Len(state.categories[i].rules.list) = 2
          /\ state.categories[j].rules = NullRules
          /\ MapGet(categoryBalancesOnDate(state, cmd.date),
                    state.categories[j].id, 0) > 0

----------------------------------------------------------------------------
(* C21: for a rule with a period, with repeatN >= 1 and any startDate and    *)
(* endDate its invariants accept, and a window that begins no later than it  *)
(* ends, countOccurrencesBetween is at most the count of the same rule with  *)
(* repeatN = 1.                                                              *)
C21_RepeatNNeverCountsMore ==
    (cmd.type = "countOccurrencesBetween" /\ ~thrown /\ state.period # Null)
       => countOccurrencesBetween(state, cmd.dateBegin, cmd.dateEnd)
            <= countOccurrencesBetween([state EXCEPT !.repeatN = 1],
                                       cmd.dateBegin, cmd.dateEnd)

(* The same, for the rules that do not end before they start *)
C21_WhenTheRuleEndsAfterItStarts ==
    (state.startDate # Null /\ state.endDate # Null
       => state.startDate <= state.endDate)
       => C21_RepeatNNeverCountsMore

----------------------------------------------------------------------------
(* C22: for a rule with period Day, repeatN = 1 and neither a startDate nor  *)
(* an endDate, countOccurrencesBetween(a, b) is b - a + 1 for every window   *)
(* with a <= b, the window of one day (a = b) included.                      *)
C22_DailyRuleCountsEveryDay ==
    (/\ cmd.type = "countOccurrencesBetween" /\ ~thrown
     /\ state.period = CategoryRulePeriod_Day /\ state.repeatN = 1
     /\ state.startDate = Null /\ state.endDate = Null)
       => countOccurrencesBetween(state, cmd.dateBegin, cmd.dateEnd)
            = cmd.dateEnd - cmd.dateBegin + 1

(* A daily rule without dates asked for a window of one day *)
C22_Witness ==
    /\ cmd.type = "countOccurrencesBetween" /\ ~thrown
    /\ state.period = CategoryRulePeriod_Day /\ state.repeatN = 1
    /\ state.startDate = Null /\ state.endDate = Null
    /\ cmd.dateBegin = cmd.dateEnd
    /\ countOccurrencesBetween(state, cmd.dateBegin, cmd.dateEnd) = 1

----------------------------------------------------------------------------
(* C23: a monthly rule with repeatN = 1 that starts on the 31st of a month   *)
(* and has no endDate is counted once in every later calendar month: over    *)
(* the window from the first to the last day of such a month                 *)
(* countOccurrencesBetween is 1, also when the month has fewer than 31 days. *)
C23_MonthlyOnThe31stCountsOnceAMonth ==
    (/\ cmd.type = "countOccurrencesBetween" /\ ~thrown
     /\ state.period = CategoryRulePeriod_Month /\ state.repeatN = 1
     /\ state.startDate # Null /\ PDate_day(state.startDate) = 31
     /\ state.endDate = Null
     /\ cmd.dateBegin > state.startDate
     /\ PDate_day(cmd.dateBegin) = 1
     /\ PDate_day(cmd.dateEnd + 1) = 1
     /\ PDate_month(cmd.dateBegin) = PDate_month(cmd.dateEnd)
     /\ PDate_year(cmd.dateBegin) = PDate_year(cmd.dateEnd))
       => countOccurrencesBetween(state, cmd.dateBegin, cmd.dateEnd) = 1

----------------------------------------------------------------------------
(* C24: for every reachable Budget b, Budget.fromJS(b.toJS()) does not throw *)
(* and equals b: the same fields and the same accounts, category groups,     *)
(* categories and transactions in the same order.                            *)
C24_FromJSOfToJS == Budget_fromJS(Budget_toJS(state)) = makeRecord(state)

(* The same, for the Budgets whose categories stand in the order of their    *)
(* groups                                                                    *)
C24_WhenCategoriesAreInGroupOrder ==
    (\A i, j \in DOMAIN state.categories :
        i < j => keyOf(state.categoryGroups, state.categories[i].groupId)
                   <= keyOf(state.categoryGroups, state.categories[j].groupId))
       => C24_FromJSOfToJS

----------------------------------------------------------------------------
(* C25: set(k, v) throws, and gives no record, exactly when the record with  *)
(* the one field replaced fails _checkInvariants; merge(data) throws exactly *)
(* when the record with all the fields of data replaced fails them, whatever *)
(* the records in between would be; a call that does not throw gives the     *)
(* record with the fields replaced, and a call that throws leaves the record *)
(* as it was.                                                                *)
C25_SetChecksEachMergeChecksTheLast ==
    /\ cmd.type = "set" =>
          LET result == [prev EXCEPT ![cmd.k] = cmd.v]
          IN /\ thrown = ~XorTestRecord_checkInvariants(result)
             /\ state = IF thrown THEN prev ELSE result
    /\ cmd.type = "merge" =>
          LET result == [k \in DOMAIN prev |->
                           IF k \in DOMAIN cmd.data THEN cmd.data[k] ELSE prev[k]]
          IN /\ thrown = ~XorTestRecord_checkInvariants(result)
             /\ state = IF thrown THEN prev ELSE result

(* A merge of both fields that succeeded although setting either field      *)
(* alone would have thrown                                                  *)
C25_Witness ==
    /\ cmd.type = "merge" /\ ~thrown /\ state # prev
    /\ DOMAIN cmd.data = {"fieldA", "fieldB"}
    /\ PRecord_set(prev, "fieldA", cmd.data.fieldA) = Throw
    /\ PRecord_set(prev, "fieldB", cmd.data.fieldB) = Throw

----------------------------------------------------------------------------
(* C26: every CategoryRule that is constructed, or made by set or merge,    *)
(* has repeatN >= 1; a repeatN of 0 or less is refused.                     *)
C26_RepeatNIsPositive == state.repeatN >= 1

(* What the invariants do refuse: a negative repeatN *)
C26_RepeatNIsNeverNegative == state.repeatN >= 0

(* C27: when UPDATE_ACCOUNT with linkNullTransactions = L names an account  *)
(* that exists it throws and changes nothing; when it inserts the account,  *)
(* the transactions are the ones before in the same order, with accountId   *)
(* set to the new account in exactly those listed in L whose accountId was  *)
(* null, and every other transaction as it was.                             *)
C27_LinksExactlyTheListedNullTransactions ==
    (cmd.type = UPDATE_ACCOUNT /\ "linkNullTransactions" \in DOMAIN cmd) =>
        IF Has(prev.accounts, cmd.id) THEN thrown /\ state = prev
        ELSE ~thrown =>
               /\ Has(state.accounts, cmd.id)
               /\ state.transactions =
                    [i \in DOMAIN prev.transactions |->
                       IF prev.transactions[i].id \in Listed(cmd.linkNullTransactions)
                          /\ prev.transactions[i].accountId = Null
                       THEN [prev.transactions[i] EXCEPT !.accountId = cmd.id]
                       ELSE prev.transactions[i]]

(* An insertion whose list names a transaction with no account, which is    *)
(* linked, and a transaction of account 1, which stays there                *)
C27_Witness ==
    /\ cmd.type = UPDATE_ACCOUNT /\ ~thrown /\ cmd.id = 2
    /\ cmd.linkNullTransactions = <<1, 2>>
    /\ Get(prev.transactions, 1).accountId = 1
    /\ Get(prev.transactions, 2).accountId = Null
    /\ Get(state.transactions, 1).accountId = 1
    /\ Get(state.transactions, 2).accountId = 2

(* The same list sent for an account that exists *)
C27_WitnessThrown ==
    /\ cmd.type = UPDATE_ACCOUNT /\ thrown /\ cmd.id = 1
    /\ cmd.linkNullTransactions = <<2>>
    /\ Get(prev.transactions, 2).accountId = Null

(* C28: when UPDATE_CATEGORY with linkTransactionDetails = L names a        *)
(* category that exists it throws and changes nothing; when it inserts the  *)
(* category, the transactions are the ones before in the same order, with   *)
(* categoryId set to the new category in exactly the detail rows            *)
(* (txnId, detailIndex) listed in L whose categoryId was null, and every    *)
(* other row as it was.                                                     *)
C28_LinksExactlyTheListedNullDetails ==
    (cmd.type = UPDATE_CATEGORY /\ "linkTransactionDetails" \in DOMAIN cmd) =>
        IF Has(prev.categories, cmd.id) THEN thrown /\ state = prev
        ELSE ~thrown =>
               /\ Has(state.categories, cmd.id)
               /\ state.transactions =
                    [i \in DOMAIN prev.transactions |->
                       [prev.transactions[i] EXCEPT !.detail =
                          [j \in DOMAIN prev.transactions[i].detail |->
                             IF <<prev.transactions[i].id, j - 1>>
                                   \in Listed(cmd.linkTransactionDetails)
                                /\ prev.transactions[i].detail[j].categoryId = Null
                             THEN [prev.transactions[i].detail[j]
                                     EXCEPT !.categoryId = cmd.id]
                             ELSE prev.transactions[i].detail[j]]]]

(* An insertion whose list names a row with no category, which is linked,   *)
(* and a row of category 1, which stays there                               *)
C28_Witness ==
    /\ cmd.type = UPDATE_CATEGORY /\ ~thrown /\ cmd.id = 2
    /\ cmd.linkTransactionDetails = <<<<1, 0>>, <<1, 1>>>>
    /\ Get(prev.transactions, 1).detail[1].categoryId = 1
    /\ Get(prev.transactions, 1).detail[2].categoryId = Null
    /\ Get(state.transactions, 1).detail[1].categoryId = 1
    /\ Get(state.transactions, 1).detail[2].categoryId = 2

(* The categories of the group of category id are next to each other *)
GroupIsOneRun(s, id) ==
    \A x, y, z \in DOMAIN s.categories :
        (x < y /\ y < z
           /\ s.categories[x].groupId = Get(s.categories, id).groupId
           /\ s.categories[z].groupId = Get(s.categories, id).groupId)
        => s.categories[y].groupId = Get(s.categories, id).groupId

(* C29: after every positionCategory(c, newIndex) that is accepted, c is at *)
(* index newIndex among the categories of its own group, and the other      *)
(* categories are in the order they were in.                                *)
C29_PositionCategoryPlacesAtNewIndex ==
    (cmd.type = UPDATE_CATEGORY /\ DOMAIN cmd = {"type", "id", "index"} /\ ~thrown) =>
        /\ keyOf(GroupCategories(state, Get(state.categories, cmd.id).groupId),
                 cmd.id) = cmd.index
        /\ MapDelete(state.categories, cmd.id) = MapDelete(prev.categories, cmd.id)

(* The same, for a newIndex below the size of the group, in a Budget whose  *)
(* categories of that group are next to each other                          *)
C29_WhenNewIndexIsInsideTheGroup ==
    (cmd.type = UPDATE_CATEGORY /\ DOMAIN cmd = {"type", "id", "index"} /\ ~thrown
       /\ GroupIsOneRun(prev, cmd.id)
       /\ cmd.index < Len(GroupCategories(prev, Get(prev.categories, cmd.id).groupId))) =>
        /\ keyOf(GroupCategories(state, Get(state.categories, cmd.id).groupId),
                 cmd.id) = cmd.index
        /\ MapDelete(state.categories, cmd.id) = MapDelete(prev.categories, cmd.id)

(* The categories of a group other than category id, in their order *)
OthersOfGroup(s, groupId, id) == MapDelete(GroupCategories(s, groupId), id)

(* C30: updateCategory(cat) of a category that is new or whose groupId      *)
(* changed puts cat right after the last category its group had before (at  *)
(* the end of that group); with the groupId unchanged cat stays at the      *)
(* position it had; in both cases the other categories of every group are   *)
(* in the order they were in.                                               *)
C30_UpdateCategoryPlacesAtEndOfGroup ==
    (cmd.type = UPDATE_CATEGORY /\ DOMAIN cmd = {"type", "id", "data"}
       /\ "groupId" \in DOMAIN cmd.data /\ ~thrown) =>
        LET groupId == cmd.data.groupId
            existing == OthersOfGroup(prev, groupId, cmd.id)
            at == IndexOf(state.categories, cmd.id)
        IN /\ Get(state.categories, cmd.id).groupId = groupId
           /\ IF ~Has(prev.categories, cmd.id)
                 \/ Get(prev.categories, cmd.id).groupId # groupId
              THEN /\ GroupCategories(state, groupId)
                         = Append(existing, Get(state.categories, cmd.id))
                   /\ existing # <<>> =>
                         state.categories[at - 1] = existing[Len(existing)]
              ELSE at = IndexOf(prev.categories, cmd.id)
           /\ \A g \in DOMAIN prev.categoryGroups :
                 OthersOfGroup(state, prev.categoryGroups[g].id, cmd.id)
                     = OthersOfGroup(prev, prev.categoryGroups[g].id, cmd.id)

(* Category 1 is moved from a group with another category to the first      *)
(* group, which has a category and is followed by the group it leaves       *)
C30_Witness ==
    /\ cmd.type = UPDATE_CATEGORY /\ DOMAIN cmd = {"type", "id", "data"} /\ ~thrown
    /\ Has(prev.categories, cmd.id)
    /\ Get(prev.categories, cmd.id).groupId # cmd.data.groupId
    /\ OthersOfGroup(prev, cmd.data.groupId, cmd.id) # <<>>
    /\ IndexOf(state.categories, cmd.id) < Len(state.categories)

(* Category 1 is updated with the groupId it has and stays where it is *)
C30_WitnessInPlace ==
    /\ cmd.type = UPDATE_CATEGORY /\ DOMAIN cmd = {"type", "id", "data"} /\ ~thrown
    /\ Has(prev.categories, cmd.id)
    /\ Get(prev.categories, cmd.id).groupId = cmd.data.groupId
    /\ IndexOf(state.categories, cmd.id) < Len(state.categories)

(* The list a command with an index reorders, as it was before the command: *)
(* the accounts, the category groups, or the categories of the group of the *)
(* category that is moved                                                   *)
ReorderedList ==
    CASE cmd.type = UPDATE_ACCOUNT -> prev.accounts
      [] cmd.type = UPDATE_CATEGORY_GROUP -> prev.categoryGroups
      [] cmd.type = UPDATE_CATEGORY ->
            GroupCategories(prev, Get(prev.categories, cmd.id).groupId)

(* C31: an UPDATE_ACCOUNT, UPDATE_CATEGORY_GROUP or UPDATE_CATEGORY command *)
(* whose index is negative or greater than the size of the list being       *)
(* reordered throws and leaves the state as it was.                         *)
C31_IndexOutOfRangeThrows ==
    ("index" \in DOMAIN cmd
       /\ (cmd.index < 0 \/ cmd.index > Len(ReorderedList))) =>
        thrown /\ state = prev

(* The same for UPDATE_CATEGORY alone, whose positionCategory asserts the   *)
(* range of newIndex                                                        *)
C31_CategoryIndexOutOfRangeThrows ==
    ("index" \in DOMAIN cmd /\ cmd.type = UPDATE_CATEGORY
       /\ (cmd.index < 0 \/ cmd.index > Len(ReorderedList))) =>
        thrown /\ state = prev

(* The state after the inverse of the last command is applied to it *)
Undone ==
    IF inverter(prev, cmd) \in {Throw, InvNull} THEN Throw
    ELSE reducer(state, inverter(prev, cmd))

(* C32: after DELETE_CATEGORY_GROUP of a group that exists and is empty,    *)
(* wherever it is in categoryGroups, applying the inverse of the command    *)
(* gives back categoryGroups as they were, the group at the index it had.   *)
C32_DeleteCategoryGroupUndoneAtSameIndex ==
    (cmd.type = DELETE_CATEGORY_GROUP /\ Has(prev.categoryGroups, cmd.id) /\ ~thrown) =>
        Undone # Throw /\ Undone.categoryGroups = prev.categoryGroups

(* The same for the group that was last in categoryGroups *)
C32_WhenTheGroupWasLast ==
    (cmd.type = DELETE_CATEGORY_GROUP /\ Has(prev.categoryGroups, cmd.id) /\ ~thrown
       /\ prev.categoryGroups[Len(prev.categoryGroups)].id = cmd.id) =>
        Undone # Throw /\ Undone = prev

(* The last command deleted a transaction that existed, or gave a           *)
(* transaction that existed another date                                    *)
MovedATransaction ==
    /\ ~thrown
    /\ cmd.type \in {DELETE_TRANSACTION, UPDATE_TRANSACTION}
    /\ Has(prev.transactions, cmd.id)
    /\ cmd.type = UPDATE_TRANSACTION =>
          /\ "date" \in DOMAIN cmd.data
          /\ cmd.data.date # Get(prev.transactions, cmd.id).date

(* C33: after DELETE_TRANSACTION, or an UPDATE_TRANSACTION that changes the *)
(* date, applying the inverse of the command gives back the transactions in *)
(* the order they were in, also when others have the same or a null date.   *)
C33_TransactionUndoneAtSamePosition ==
    MovedATransaction => (Undone # Throw /\ Undone.transactions = prev.transactions)

(* The same when no other transaction has the date of the one that moved,   *)
(* the null date included                                                   *)
C33_WhenNoOtherHasItsDate ==
    (MovedATransaction
       /\ \A i \in DOMAIN prev.transactions :
             prev.transactions[i].id # cmd.id =>
                prev.transactions[i].date # Get(prev.transactions, cmd.id).date) =>
        (Undone # Throw /\ Undone.transactions = prev.transactions)

(* The last command gave a category that existed another groupId *)
ChangedTheGroup ==
    /\ ~thrown
    /\ cmd.type = UPDATE_CATEGORY
    /\ Has(prev.categories, cmd.id)
    /\ "data" \in DOMAIN cmd
    /\ "groupId" \in DOMAIN cmd.data
    /\ cmd.data.groupId # Get(prev.categories, cmd.id).groupId

(* The index of category id among the categories of its group *)
IndexInGroup(s, id) ==
    keyOf(GroupCategories(s, Get(s.categories, id).groupId), id)

(* C34: after an UPDATE_CATEGORY that changes the groupId of a category     *)
(* that exists, applying the inverse of the command puts the category back  *)
(* in its original group at the index it had there.                         *)
C34_GroupChangeUndoneAtSameIndex ==
    ChangedTheGroup =>
        /\ Undone # Throw
        /\ Get(Undone.categories, cmd.id).groupId
              = Get(prev.categories, cmd.id).groupId
        /\ IndexInGroup(Undone, cmd.id) = IndexInGroup(prev, cmd.id)

(* The same for a category that was the last of its original group *)
C34_WhenTheCategoryWasLastOfItsGroup ==
    (ChangedTheGroup
       /\ IndexInGroup(prev, cmd.id) + 1
             = Len(GroupCategories(prev, Get(prev.categories, cmd.id).groupId))) =>
        /\ Undone # Throw
        /\ Get(Undone.categories, cmd.id).groupId
              = Get(prev.categories, cmd.id).groupId
        /\ IndexInGroup(Undone, cmd.id) = IndexInGroup(prev, cmd.id)

(* C35: for every recognized command the reducer applied without throwing,  *)
(* inverter(state before, command) is a command, not null and not an error, *)
(* whose type is a recognized type and whose budgetId is the id of the      *)
(* state after, so that the reducer does not ignore it there.               *)
C35_InverseIsARecognizedCommand ==
    (cmd.type \in RecognizedTypes /\ ~thrown) =>
        /\ inverter(prev, cmd) \notin {Throw, InvNull}
        /\ inverter(prev, cmd).type \in RecognizedTypes
        /\ inverter(prev, cmd).budgetId = state.id

(* The same for every command but a DELETE of an id that is not there *)
C35_UnlessADeleteOfMissing ==
    (cmd.type \in RecognizedTypes /\ ~thrown
       /\ ~(cmd.type \in DeleteTypes /\ ~Has(DeleteTarget(prev, cmd.type), cmd.id))) =>
        /\ inverter(prev, cmd) \notin {Throw, InvNull}
        /\ inverter(prev, cmd).type \in RecognizedTypes
        /\ inverter(prev, cmd).budgetId = state.id

----------------------------------------------------------------------------
(* C36: for a periodic rule (its period is not null) with a startDate s    *)
(* and an endDate that is null or >= s, and dates a <= b < c,               *)
(* countOccurrencesBetween(a, c) is                                         *)
(* countOccurrencesBetween(a, b) + countOccurrencesBetween(b + 1, c): the   *)
(* occurrences are anchored to s, not to the window.                        *)
C36_CountIsAdditiveOverTheWindow ==
    (/\ cmd.type = "countOccurrencesBetween" /\ ~thrown
     /\ state.period # Null
     /\ state.startDate # Null
     /\ state.endDate # Null => state.endDate >= state.startDate)
       => \A b \in cmd.dateBegin..(cmd.dateEnd - 1) :
             countOccurrencesBetween(state, cmd.dateBegin, cmd.dateEnd)
               = countOccurrencesBetween(state, cmd.dateBegin, b)
                   + countOccurrencesBetween(state, b + 1, cmd.dateEnd)

(* A weekly rule that starts on 2000-01-01, asked for 2000-01-02 to         *)
(* 2000-01-15: two occurrences, one up to 2000-01-08 and one after it       *)
C36_Witness ==
    /\ cmd.type = "countOccurrencesBetween" /\ ~thrown
    /\ state.period = CategoryRulePeriod_Week /\ state.repeatN = 1
    /\ state.startDate = 0 /\ state.endDate = Null
    /\ cmd.dateBegin = 1 /\ cmd.dateEnd = 14
    /\ countOccurrencesBetween(state, 1, 14) = 2
    /\ countOccurrencesBetween(state, 1, 7) = 1
    /\ countOccurrencesBetween(state, 8, 14) = 1

----------------------------------------------------------------------------
(* C37: for every rule the CategoryRule invariants accept and every window  *)
(* with dateEnd >= dateBegin, countOccurrencesBetween is not negative.      *)
C37_CountIsNeverNegative ==
    (cmd.type = "countOccurrencesBetween" /\ ~thrown)
       => countOccurrencesBetween(state, cmd.dateBegin, cmd.dateEnd) >= 0

(* The same, for the rules that do not end before they start *)
C37_WhenTheRuleEndsAfterItStarts ==
    (/\ cmd.type = "countOccurrencesBetween" /\ ~thrown
     /\ (state.startDate # Null /\ state.endDate # Null)
           => state.startDate <= state.endDate)
       => countOccurrencesBetween(state, cmd.dateBegin, cmd.dateEnd) >= 0

----------------------------------------------------------------------------
(* C38: for a periodic rule with a startDate s and no endDate, and a window *)
(* that starts at s, countOccurrencesBetween is at most ceil(c1 / repeatN), *)
(* where c1 is the count of the same rule with repeatN = 1 over the window: *)
(* repeatN skips occurrences for every period, Year included.               *)
C38_RepeatNSkipsOccurrences ==
    (/\ cmd.type = "countOccurrencesBetween" /\ ~thrown
     /\ state.period # Null
     /\ state.startDate # Null /\ state.endDate = Null
     /\ cmd.dateBegin = state.startDate)
       => countOccurrencesBetween(state, cmd.dateBegin, cmd.dateEnd) * state.repeatN
            < countOccurrencesBetween([state EXCEPT !.repeatN = 1],
                                      cmd.dateBegin, cmd.dateEnd) + state.repeatN

(* The same for the periods Day, Week and Month *)
C38_UnlessThePeriodIsYear ==
    state.period # CategoryRulePeriod_Year => C38_RepeatNSkipsOccurrences

----------------------------------------------------------------------------
(* The date range of a rule is not empty, and it ends before the range of   *)
(* the other rule starts; a null startDate or endDate is unbounded on that  *)
(* side                                                                     *)
RangeIsNotEmpty(rule) ==
    (rule.startDate # Null /\ rule.endDate # Null) => rule.startDate <= rule.endDate

EndsBefore(rule, otherRule) ==
    /\ rule.endDate # Null
    /\ otherRule.startDate # Null
    /\ rule.endDate < otherRule.startDate

(* The last command gave category 1 rules whose date ranges are pairwise    *)
(* disjoint                                                                 *)
GaveDisjointRules ==
    /\ cmd.type = UPDATE_CATEGORY
    /\ "data" \in DOMAIN cmd
    /\ "rules" \in DOMAIN cmd.data
    /\ \A i \in DOMAIN cmd.data.rules.list : RangeIsNotEmpty(cmd.data.rules.list[i])
    /\ \A i, j \in DOMAIN cmd.data.rules.list :
          i # j => \/ EndsBefore(cmd.data.rules.list[i], cmd.data.rules.list[j])
                   \/ EndsBefore(cmd.data.rules.list[j], cmd.data.rules.list[i])

(* C39: a category whose rules cover pairwise disjoint date ranges is       *)
(* accepted, wherever the ranges lie relative to the period of the Budget.  *)
C39_DisjointRulesAreAccepted ==
    GaveDisjointRules => ~thrown

(* The same when every date of the rules lies in the period of the Budget *)
C39_WhenTheDatesLieInTheBudgetPeriod ==
    (GaveDisjointRules
       /\ \A i \in DOMAIN cmd.data.rules.list :
             /\ cmd.data.rules.list[i].startDate \in {Null} \cup (prev.startDate..prev.endDate)
             /\ cmd.data.rules.list[i].endDate \in {Null} \cup (prev.startDate..prev.endDate))
       => ~thrown

====
